---------------------------- MODULE Spec2Model ----------------------------
(***************************************************************************)
(* A model of the chess engine of George-FG/Mod2_Nov2025: the move         *)
(* generator (moveValidation), the negamax search engine (myMinimaxMove)   *)
(* with its module-level tables, the position hasher and repetition test,  *)
(* and the parts of the two hosts (useChessGame) that apply moves.         *)
(*                                                                         *)
(* Board orientation is the source's: white starts on rows 0 and 1, black  *)
(* on rows 6 and 7, and both kings start on column 3.                      *)
(***************************************************************************)
EXTENDS Integers, Sequences, FiniteSets, TLC

VARIABLES
    impl,         \* the code that plays the line: an engine or a host
    gameState,    \* the position of the line and, for a host, its GameState
                  \* fields: board, currentPlayer (the engine's sideToMove),
                  \* castlingRights, isCheck, isCheckmate, lastMove (the
                  \* tail of moveHistory)
    lineHistory,  \* position keys of the line (the engine's history array)
    linePly,      \* moves applied so far (the engine's ply)
    hashArgs,     \* the two positions handed to hashPosition
    hashKeys,     \* the keys hashPosition returned for them
    probe,        \* a line's history array (line) and the last call of
                  \* isThirdRepetition on it: key, the history it was given
                  \* (seen), result
    transpositionTable,  \* module-level Map of the negamax engine
    currentAge,          \* module-level counter of the negamax engine
    killerMoves,         \* module-level killer lists, by ply
    historyTable,        \* module-level history scores, by from/to square
    calls,        \* the calls of myMinimaxMove made so far: arguments, the
                  \* clock's behaviour, the move returned
    searched      \* the last call made on one function of the engine by
                  \* itself: the function (fn), what it was given and what
                  \* it returned

gameVars == <<impl, gameState, lineHistory, linePly>>

hashVars == <<hashArgs, hashKeys>>

searchVars ==
    <<transpositionTable, currentAge, killerMoves, historyTable, calls, searched>>

vars == <<gameVars, hashVars, probe, searchVars>>

(***************************************************************************)
(* Values                                                                  *)
(***************************************************************************)

\* A square that holds no piece (null in the source).
Null == [type |-> "null", color |-> "null"]

Piece(t, c) == [type |-> t, color |-> c]

Pos(r, c) == [row |-> r, col |-> c]

Rows == 0..7

Cols == 0..7

\* castlingRights === undefined in the engine
NoRights ==
    [defined |-> FALSE, whiteKingSide |-> FALSE, whiteQueenSide |-> FALSE,
     blackKingSide |-> FALSE, blackQueenSide |-> FALSE]

Rights(wk, wq, bk, bq) ==
    [defined |-> TRUE, whiteKingSide |-> wk, whiteQueenSide |-> wq,
     blackKingSide |-> bk, blackQueenSide |-> bq]

Opponent(color) == IF color = "white" THEN "black" ELSE "white"

\* A Move record; absent optional fields are Null / FALSE / "none".
MkMove(from, to, piece, captured, castling) ==
    [from |-> from, to |-> to, piece |-> piece, captured |-> captured,
     promotion |-> "none", isCastling |-> castling, isEnPassant |-> FALSE]

\* The value of "no move" (null) returned by the engine.
NoMove == MkMove(Pos(-1, -1), Pos(-1, -1), Null, Null, FALSE)

(***************************************************************************)
(* Initial board (initialBoard.ts)                                         *)
(***************************************************************************)

BackRow == <<"r", "n", "b", "k", "q", "b", "n", "r">>

createInitialBoard ==
    [r \in Rows |-> [c \in Cols |->
        CASE r = 0 -> Piece(BackRow[c + 1], "white")
          [] r = 1 -> Piece("p", "white")
          [] r = 6 -> Piece("p", "black")
          [] r = 7 -> Piece(BackRow[c + 1], "black")
          [] OTHER -> Null]]

(***************************************************************************)
(* Move generation (moveValidation.ts)                                     *)
(***************************************************************************)

isValidPosition(pos) ==
    pos.row >= 0 /\ pos.row < 8 /\ pos.col >= 0 /\ pos.col < 8

At(board, pos) == board[pos.row][pos.col]

getPawnMoves(board, from, color) ==
    LET direction == IF color = "white" THEN 1 ELSE -1
        startRow == IF color = "white" THEN 1 ELSE 6
        oneForward == Pos(from.row + direction, from.col)
        twoForward == Pos(from.row + 2 * direction, from.col)
        forward ==
            IF isValidPosition(oneForward) /\ At(board, oneForward) = Null
            THEN <<oneForward>> \o
                 (IF from.row = startRow /\ isValidPosition(twoForward)
                     /\ At(board, twoForward) = Null
                  THEN <<twoForward>> ELSE <<>>)
            ELSE <<>>
        captureLeft == Pos(from.row + direction, from.col - 1)
        captureRight == Pos(from.row + direction, from.col + 1)
        canCapture(pos) ==
            /\ isValidPosition(pos)
            /\ At(board, pos) # Null
            /\ At(board, pos).color # color
    IN  forward \o SelectSeq(<<captureLeft, captureRight>>, canCapture)

KnightOffsets ==
    << <<-2, -1>>, <<-2, 1>>, <<-1, -2>>, <<-1, 2>>,
       <<1, -2>>, <<1, 2>>, <<2, -1>>, <<2, 1>> >>

KingOffsets ==
    << <<-1, -1>>, <<-1, 0>>, <<-1, 1>>, <<0, -1>>,
       <<0, 1>>, <<1, -1>>, <<1, 0>>, <<1, 1>> >>

\* The shared body of getKnightMoves and getKingMoves: one step per offset.
StepMoves(board, from, color, offsets) ==
    LET cand == [i \in 1..Len(offsets) |->
                    Pos(from.row + offsets[i][1], from.col + offsets[i][2])]
        ok(pos) ==
            /\ isValidPosition(pos)
            /\ (At(board, pos) = Null \/ At(board, pos).color # color)
    IN  SelectSeq(cand, ok)

getKnightMoves(board, from, color) == StepMoves(board, from, color, KnightOffsets)

getKingMoves(board, from, color) == StepMoves(board, from, color, KingOffsets)

RECURSIVE Ray(_, _, _, _, _, _)
\* The while loop of getLinearMoves along one direction, from (row, col).
Ray(board, row, col, rowDir, colDir, color) ==
    IF ~isValidPosition(Pos(row, col)) THEN <<>>
    ELSE LET target == board[row][col]
         IN  IF target = Null
             THEN <<Pos(row, col)>> \o
                  Ray(board, row + rowDir, col + colDir, rowDir, colDir, color)
             ELSE IF target.color # color THEN <<Pos(row, col)>> ELSE <<>>

RECURSIVE LinearFrom(_, _, _, _, _)
LinearFrom(board, from, color, directions, i) ==
    IF i > Len(directions) THEN <<>>
    ELSE Ray(board, from.row + directions[i][1], from.col + directions[i][2],
             directions[i][1], directions[i][2], color)
         \o LinearFrom(board, from, color, directions, i + 1)

getLinearMoves(board, from, color, directions) ==
    LinearFrom(board, from, color, directions, 1)

BishopDirections == << <<-1, -1>>, <<-1, 1>>, <<1, -1>>, <<1, 1>> >>

RookDirections == << <<-1, 0>>, <<1, 0>>, <<0, -1>>, <<0, 1>> >>

getBishopMoves(board, from, color) ==
    getLinearMoves(board, from, color, BishopDirections)

getRookMoves(board, from, color) ==
    getLinearMoves(board, from, color, RookDirections)

getQueenMoves(board, from, color) ==
    getLinearMoves(board, from, color, KingOffsets)

getValidMoves(board, from, piece) ==
    CASE piece.type = "p" -> getPawnMoves(board, from, piece.color)
      [] piece.type = "n" -> getKnightMoves(board, from, piece.color)
      [] piece.type = "b" -> getBishopMoves(board, from, piece.color)
      [] piece.type = "r" -> getRookMoves(board, from, piece.color)
      [] piece.type = "q" -> getQueenMoves(board, from, piece.color)
      [] piece.type = "k" -> getKingMoves(board, from, piece.color)
      [] OTHER -> <<>>

InSeq(x, s) == \E i \in 1..Len(s) : s[i] = x

Abs(x) == IF x < 0 THEN -x ELSE x

Sign(x) == IF x < 0 THEN -1 ELSE IF x > 0 THEN 1 ELSE 0

\* moves.some(move => isPositionEqual(move, position)) for the moves
\* getValidMoves(board, from, piece) returns, decided from the geometry of
\* the two squares; the answer is that of a scan of the list.
MovesInclude(board, from, piece, position) ==
    LET dr == position.row - from.row
        dc == position.col - from.col
        target == At(board, position)
        free == target = Null
        takeable == target = Null \/ target.color # piece.color
        steps == IF Abs(dr) > Abs(dc) THEN Abs(dr) ELSE Abs(dc)
        clear == \A k \in 1..(steps - 1) :
                    board[from.row + k * Sign(dr)][from.col + k * Sign(dc)] = Null
        straight == (dr = 0) # (dc = 0)
        diagonal == dr # 0 /\ Abs(dr) = Abs(dc)
        direction == IF piece.color = "white" THEN 1 ELSE -1
        startRow == IF piece.color = "white" THEN 1 ELSE 6
    IN  CASE piece.type = "p" ->
               \/ dc = 0 /\ dr = direction /\ free
               \/ /\ dc = 0 /\ dr = 2 * direction /\ from.row = startRow /\ free
                  /\ board[from.row + direction][from.col] = Null
               \/ Abs(dc) = 1 /\ dr = direction /\ ~free /\ takeable
          [] piece.type = "n" ->
               /\ (Abs(dr) = 1 /\ Abs(dc) = 2) \/ (Abs(dr) = 2 /\ Abs(dc) = 1)
               /\ takeable
          [] piece.type = "k" -> steps = 1 /\ takeable
          [] piece.type = "b" -> diagonal /\ takeable /\ clear
          [] piece.type = "r" -> straight /\ takeable /\ clear
          [] piece.type = "q" -> (straight \/ diagonal) /\ takeable /\ clear
          [] OTHER -> FALSE

isPositionUnderAttack(board, position, byColor) ==
    \E row \in Rows, col \in Cols :
        /\ board[row][col].color = byColor
        /\ MovesInclude(board, Pos(row, col), board[row][col], position)

\* The first king of the colour in row-major order, or Pos(-1, -1) for null.
findKing(board, color) ==
    LET kings == {i \in 0..63 :
                    /\ board[i \div 8][i % 8].type = "k"
                    /\ board[i \div 8][i % 8].color = color}
    IN  IF kings = {} THEN Pos(-1, -1)
        ELSE LET i == CHOOSE k \in kings : \A j \in kings : k <= j
             IN  Pos(i \div 8, i % 8)

isKingInCheck(board, kingColor) ==
    LET kingPos == findKing(board, kingColor)
    IN  IF kingPos = Pos(-1, -1) THEN FALSE
        ELSE isPositionUnderAttack(board, kingPos, Opponent(kingColor))

SetSquare(board, pos, piece) ==
    [board EXCEPT ![pos.row] = [@ EXCEPT ![pos.col] = piece]]

wouldMoveResultInCheck(board, from, to, playerColor) ==
    isKingInCheck([board EXCEPT ![to.row][to.col] = board[from.row][from.col],
                                ![from.row][from.col] = Null],
                  playerColor)

\* One side of getCastlingMoves: the rook's corner, the squares tested, the target.
CastleSide(board, row, color, rookCol, squaresBetween, toCol) ==
    LET rook == board[row][rookCol]
        allClear == \A i \in 1..Len(squaresBetween) :
                        board[row][squaresBetween[i]] = Null
        notUnderAttack == \A i \in 1..Len(squaresBetween) :
            ~isPositionUnderAttack(board, Pos(row, squaresBetween[i]),
                                   Opponent(color))
    IN  IF rook # Null /\ rook.type = "r" /\ rook.color = color
           /\ allClear /\ notUnderAttack
        THEN <<Pos(row, toCol)>> ELSE <<>>

\* rights is [kingSide, queenSide]
getCastlingMoves(board, from, color, rights, isInCheck) ==
    LET row == IF color = "white" THEN 0 ELSE 7
    IN  IF from.row # row \/ from.col # 3 THEN <<>>
        ELSE IF isInCheck THEN <<>>
        ELSE (IF rights.kingSide
              THEN CastleSide(board, row, color, 7, <<4, 5>>, 5) ELSE <<>>)
          \o (IF rights.queenSide
              THEN CastleSide(board, row, color, 0, <<1, 2>>, 1) ELSE <<>>)


(***************************************************************************)
(* Engine helpers (negamax engine: getValidMovesForColor, applyMove,       *)
(* updateCastlingRights)                                                   *)
(***************************************************************************)

\* The moves one square contributes in getValidMovesForColor's double loop.
SquareMoves(board, color, castlingRights, row, col) ==
    LET piece == board[row][col]
        from == Pos(row, col)
    IN  IF piece = Null \/ piece.color # color THEN <<>>
        ELSE
        LET possibleMoves == getValidMoves(board, from, piece)
            legal(to) == ~wouldMoveResultInCheck(board, from, to, piece.color)
            legalMoves == SelectSeq(possibleMoves, legal)
            ordinary == [i \in 1..Len(legalMoves) |->
                MkMove(from, legalMoves[i], piece, At(board, legalMoves[i]), FALSE)]
            rights ==
                [kingSide |-> IF color = "white" THEN castlingRights.whiteKingSide
                              ELSE castlingRights.blackKingSide,
                 queenSide |-> IF color = "white" THEN castlingRights.whiteQueenSide
                               ELSE castlingRights.blackQueenSide]
            castlingMoves ==
                IF piece.type = "k" /\ castlingRights.defined
                THEN getCastlingMoves(board, from, color, rights,
                                      isKingInCheck(board, color))
                ELSE <<>>
            castling == [i \in 1..Len(castlingMoves) |->
                MkMove(from, castlingMoves[i], piece, Null, TRUE)]
        IN  ordinary \o castling

\* The moves of the eight squares of one pass of the inner loop (over col)
\* of getValidMovesForColor, in the loop's order; squares[row * 8 + col] are
\* the moves of the square.
RowMoves(squares, row) ==
    ((squares[row * 8] \o squares[row * 8 + 1])
        \o (squares[row * 8 + 2] \o squares[row * 8 + 3]))
    \o ((squares[row * 8 + 4] \o squares[row * 8 + 5])
        \o (squares[row * 8 + 6] \o squares[row * 8 + 7]))

\* The moves the outer loop (over row) of getValidMovesForColor collects.
BoardMoves(squares) ==
    ((RowMoves(squares, 0) \o RowMoves(squares, 1))
        \o (RowMoves(squares, 2) \o RowMoves(squares, 3)))
    \o ((RowMoves(squares, 4) \o RowMoves(squares, 5))
        \o (RowMoves(squares, 6) \o RowMoves(squares, 7)))

getValidMovesForColor(board, color, castlingRights) ==
    BoardMoves([k \in 0..63 |->
        SquareMoves(board, color, castlingRights, k \div 8, k % 8)])

\* The castling branch of an applyMove: the rook of rookCol goes to rookTo.
MoveRook(board, row, rookCol, rookTo) ==
    SetSquare(SetSquare(board, Pos(row, rookTo), board[row][rookCol]),
              Pos(row, rookCol), Null)

\* An applyMove whose en-passant branch empties nothing: the passed pawn
\* stays on the board.
applyMoveKeepingPassedPawn(board, move) ==
    LET piece == At(board, move.from)
        moved == SetSquare(SetSquare(board, move.to, piece), move.from, Null)
        castled ==
            IF move.isCastling /\ piece.type = "k"
            THEN IF move.to.col = 5 THEN MoveRook(moved, move.from.row, 7, 4)
                 ELSE IF move.to.col = 1 THEN MoveRook(moved, move.from.row, 0, 2)
                 ELSE moved
            ELSE moved
        promotionRow == IF piece.color = "white" THEN 7 ELSE 0
    IN  IF piece = Null THEN board
        ELSE IF piece.type = "p" /\ move.to.row = promotionRow
             THEN SetSquare(castled, move.to, Piece("q", piece.color))
             ELSE castled

\* applyMove of the negamax engine (king-side target column 5, queen-side 1).
applyMove(board, move) ==
    LET piece == At(board, move.from)
        moved == SetSquare(SetSquare(board, move.to, piece), move.from, Null)
        castled ==
            IF move.isCastling /\ piece.type = "k"
            THEN IF move.to.col = 5 THEN MoveRook(moved, move.from.row, 7, 4)
                 ELSE IF move.to.col = 1 THEN MoveRook(moved, move.from.row, 0, 2)
                 ELSE moved
            ELSE moved
        enPassant ==
            IF move.isEnPassant /\ piece.type = "p"
            THEN SetSquare(castled, Pos(move.from.row, move.to.col), Null)
            ELSE castled
        promotionRow == IF piece.color = "white" THEN 7 ELSE 0
    IN  IF piece = Null THEN board
        ELSE IF piece.type = "p" /\ move.to.row = promotionRow
             THEN SetSquare(enPassant, move.to, Piece("q", piece.color))
             ELSE enPassant

\* applyMove of negamaxAttempt3 (castling targets columns 6 and 2).
applyMoveAttempt3(board, move) ==
    LET piece == At(board, move.from)
        moved == SetSquare(SetSquare(board, move.to, piece), move.from, Null)
        castled ==
            IF move.isCastling /\ piece.type = "k"
            THEN IF move.to.col = 6 THEN MoveRook(moved, move.from.row, 7, 5)
                 ELSE IF move.to.col = 2 THEN MoveRook(moved, move.from.row, 0, 3)
                 ELSE moved
            ELSE moved
        enPassant ==
            IF move.isEnPassant /\ piece.type = "p"
            THEN SetSquare(castled, Pos(move.from.row, move.to.col), Null)
            ELSE castled
        promotionRow == IF piece.color = "white" THEN 7 ELSE 0
    IN  IF piece = Null THEN board
        ELSE IF piece.type = "p" /\ move.to.row = promotionRow
             THEN SetSquare(enPassant, move.to, Piece("q", piece.color))
             ELSE enPassant

\* updateCastlingRights with the rook branch assigning "the rook did not leave
\* this corner" to both rights of the colour instead of clearing one.
updateCastlingRightsRecomputed(rights, move, board) ==
    LET piece == At(board, move.from)
        homeRow == IF piece.color = "white" THEN 0 ELSE 7
    IN  IF ~rights.defined THEN NoRights
        ELSE IF piece = Null THEN rights
        ELSE IF piece.type = "k"
        THEN IF piece.color = "white"
             THEN [rights EXCEPT !.whiteKingSide = FALSE, !.whiteQueenSide = FALSE]
             ELSE [rights EXCEPT !.blackKingSide = FALSE, !.blackQueenSide = FALSE]
        ELSE IF piece.type = "r" /\ move.from.row = homeRow
        THEN IF piece.color = "white"
             THEN [rights EXCEPT !.whiteQueenSide = (move.from.col # 0),
                                 !.whiteKingSide = (move.from.col # 7)]
             ELSE [rights EXCEPT !.blackQueenSide = (move.from.col # 0),
                                 !.blackKingSide = (move.from.col # 7)]
        ELSE rights

updateCastlingRights(rights, move, board) ==
    LET piece == At(board, move.from)
        afterKing ==
            IF piece.type = "k"
            THEN IF piece.color = "white"
                 THEN [rights EXCEPT !.whiteKingSide = FALSE, !.whiteQueenSide = FALSE]
                 ELSE [rights EXCEPT !.blackKingSide = FALSE, !.blackQueenSide = FALSE]
            ELSE rights
        afterRook ==
            IF piece.type = "r"
            THEN IF piece.color = "white" /\ move.from.row = 0
                 THEN [afterKing EXCEPT
                         !.whiteQueenSide = IF move.from.col = 0 THEN FALSE ELSE @,
                         !.whiteKingSide = IF move.from.col = 7 THEN FALSE ELSE @]
                 ELSE IF piece.color = "black" /\ move.from.row = 7
                 THEN [afterKing EXCEPT
                         !.blackQueenSide = IF move.from.col = 0 THEN FALSE ELSE @,
                         !.blackKingSide = IF move.from.col = 7 THEN FALSE ELSE @]
                 ELSE afterKing
            ELSE afterKing
    IN  IF ~rights.defined THEN NoRights
        ELSE IF piece = Null THEN rights
        ELSE afterRook

(***************************************************************************)
(* Position key and repetition test                                        *)
(***************************************************************************)

\* JSON.stringify of one board cell: null, or an object with the members in
\* the order every constructor of the source writes them (type, color).
PieceJSON(p) ==
    IF p = Null THEN "null"
    ELSE "{\"type\":\"" \o p.type \o "\",\"color\":\"" \o p.color \o "\"}"

RECURSIVE JoinFrom(_, _, _)
\* Array members first..last (first <= last), comma separated.
JoinFrom(items, first, last) ==
    IF first = last THEN items[first]
    ELSE JoinFrom(items, first, (first + last) \div 2)
         \o ("," \o JoinFrom(items, (first + last) \div 2 + 1, last))

ArrayJSON(items) ==
    IF Len(items) = 0 THEN "[]"
    ELSE "[" \o (JoinFrom(items, 1, Len(items)) \o "]")

BoardJSON(board) ==
    ArrayJSON([r \in 1..8 |->
        ArrayJSON([c \in 1..8 |-> PieceJSON(board[r - 1][c - 1])])])

BoolJSON(b) == IF b THEN "true" ELSE "false"

RightsJSON(rights) ==
    "{\"whiteKingSide\":" \o BoolJSON(rights.whiteKingSide)
    \o ",\"whiteQueenSide\":" \o BoolJSON(rights.whiteQueenSide)
    \o ",\"blackKingSide\":" \o BoolJSON(rights.blackKingSide)
    \o ",\"blackQueenSide\":" \o BoolJSON(rights.blackQueenSide) \o "}"

\* hashPosition leaving the castling rights out of the key.
hashPositionWithoutRights(board, sideToMove, castlingRights) ==
    "{\"b\":" \o BoardJSON(board) \o ",\"s\":\"" \o sideToMove \o "\"}"

\* JSON.stringify({b, s, c}): a member whose value is undefined is left out.
hashPosition(board, sideToMove, castlingRights) ==
    "{\"b\":" \o BoardJSON(board) \o ",\"s\":\"" \o sideToMove \o "\""
    \o (IF castlingRights.defined
        THEN ",\"c\":" \o RightsJSON(castlingRights) ELSE "")
    \o "}"

RECURSIVE ThirdRepetitionFrom(_, _, _, _)
\* The for loop of isThirdRepetition from index i with `count` matches so far.
ThirdRepetitionFrom(key, history, i, count) ==
    IF i > Len(history) THEN FALSE
    ELSE IF history[i] = key
         THEN IF count + 1 >= 2 THEN TRUE
              ELSE ThirdRepetitionFrom(key, history, i + 1, count + 1)
         ELSE ThirdRepetitionFrom(key, history, i + 1, count)

\* isThirdRepetition counting the candidate itself as an occurrence.
isThirdRepetitionCountingCandidate(key, history) ==
    ThirdRepetitionFrom(key, history, 1, 1)

isThirdRepetition(key, history) == ThirdRepetitionFrom(key, history, 1, 0)

(***************************************************************************)
(* Hosts (useChessGame.ts of _chess2 and of _chess)                        *)
(***************************************************************************)

\* checkForLegalMoves: some piece of the colour has a move that leaves its
\* king unattacked (castling is not looked at).
checkForLegalMoves(board, color) ==
    \E row \in Rows, col \in Cols :
        /\ board[row][col] # Null
        /\ board[row][col].color = color
        /\ LET moves == getValidMoves(board, Pos(row, col), board[row][col])
           IN  \E i \in 1..Len(moves) :
                  ~wouldMoveResultInCheck(board, Pos(row, col), moves[i], color)

\* The castling-rights block shared by both hosts' makeMove: the mover's
\* king or rook moved, or a rook was captured.
HostCastlingRights(rights, piece, captured, from, to) ==
    LET afterKing ==
            IF piece.type = "k"
            THEN IF piece.color = "white"
                 THEN [rights EXCEPT !.whiteKingSide = FALSE, !.whiteQueenSide = FALSE]
                 ELSE [rights EXCEPT !.blackKingSide = FALSE, !.blackQueenSide = FALSE]
            ELSE rights
        afterRook ==
            IF piece.type = "r"
            THEN IF piece.color = "white"
                 THEN [afterKing EXCEPT
                         !.whiteQueenSide = IF from.col = 0 THEN FALSE ELSE @,
                         !.whiteKingSide = IF from.col = 7 THEN FALSE ELSE @]
                 ELSE [afterKing EXCEPT
                         !.blackQueenSide = IF from.col = 0 THEN FALSE ELSE @,
                         !.blackKingSide = IF from.col = 7 THEN FALSE ELSE @]
            ELSE afterKing
    IN  IF captured # Null /\ captured.type = "r"
        THEN IF captured.color = "white"
             THEN [afterRook EXCEPT
                     !.whiteQueenSide = IF to.col = 0 THEN FALSE ELSE @,
                     !.whiteKingSide = IF to.col = 7 THEN FALSE ELSE @]
             ELSE [afterRook EXCEPT
                     !.blackQueenSide = IF to.col = 0 THEN FALSE ELSE @,
                     !.blackKingSide = IF to.col = 7 THEN FALSE ELSE @]
        ELSE afterRook

\* makeMove of the _chess2 host, on the fields of GameState the moves depend
\* on: board, currentPlayer, castlingRights, isCheck, isCheckmate and the move
\* appended to moveHistory (lastMove).
makeMoveChess2(state, from, to) ==
    LET piece == At(state.board, from)
        target == At(state.board, to)
        isCastling == piece.type = "k"
                      /\ (to.col - from.col = 2 \/ from.col - to.col = 2)
        isEnPassant == piece.type = "p" /\ target = Null /\ from.col # to.col
        captured == IF isEnPassant THEN state.board[from.row][to.col] ELSE target
        afterEnPassant ==
            IF isEnPassant
            THEN SetSquare(state.board, Pos(from.row, to.col), Null)
            ELSE state.board
        moved == SetSquare(SetSquare(afterEnPassant, to, piece), from, Null)
        castled ==
            IF isCastling
            THEN IF to.col = 5 THEN MoveRook(moved, from.row, 7, 4)
                 ELSE IF to.col = 1 THEN MoveRook(moved, from.row, 0, 2)
                 ELSE moved
            ELSE moved
        promotionRow == IF piece.color = "white" THEN 7 ELSE 0
        promotes == piece.type = "p" /\ to.row = promotionRow
        newBoard == IF promotes
                    THEN SetSquare(castled, to, Piece("q", piece.color))
                    ELSE castled
        nextPlayer == Opponent(state.currentPlayer)
        inCheck == isKingInCheck(newBoard, nextPlayer)
    IN  IF piece = Null THEN state
        ELSE [board |-> newBoard,
              currentPlayer |-> nextPlayer,
              castlingRights |->
                 HostCastlingRights(state.castlingRights, piece, captured, from, to),
              isCheck |-> inCheck,
              isCheckmate |-> inCheck /\ ~checkForLegalMoves(newBoard, nextPlayer),
              lastMove |-> [from |-> from, to |-> to, piece |-> piece,
                        captured |-> captured,
                        promotion |-> IF promotes THEN "q" ELSE "none",
                        isCastling |-> isCastling, isEnPassant |-> isEnPassant]]

\* makeMove of the _chess host: no en passant, castling targets 6 and 2.
makeMoveChess(state, from, to) ==
    LET piece == At(state.board, from)
        captured == At(state.board, to)
        isCastling == piece.type = "k"
                      /\ (to.col - from.col = 2 \/ from.col - to.col = 2)
        moved == SetSquare(SetSquare(state.board, to, piece), from, Null)
        castled ==
            IF isCastling
            THEN IF to.col = 6 THEN MoveRook(moved, from.row, 7, 5)
                 ELSE IF to.col = 2 THEN MoveRook(moved, from.row, 0, 3)
                 ELSE moved
            ELSE moved
        promotionRow == IF piece.color = "white" THEN 7 ELSE 0
        promotes == piece.type = "p" /\ to.row = promotionRow
        newBoard == IF promotes
                    THEN SetSquare(castled, to, Piece("q", piece.color))
                    ELSE castled
        nextPlayer == Opponent(state.currentPlayer)
        inCheck == isKingInCheck(newBoard, nextPlayer)
    IN  [board |-> newBoard,
         currentPlayer |-> nextPlayer,
         castlingRights |->
            HostCastlingRights(state.castlingRights, piece, captured, from, to),
         isCheck |-> inCheck,
         isCheckmate |-> inCheck /\ ~checkForLegalMoves(newBoard, nextPlayer),
         lastMove |-> [from |-> from, to |-> to, piece |-> piece,
                   captured |-> captured,
                   promotion |-> IF promotes THEN "q" ELSE "none",
                   isCastling |-> isCastling, isEnPassant |-> FALSE]]

\* selectSquare: the validMoves stored for a selected own piece (ordinary
\* moves, the king's castling moves on prev.isCheck, all filtered by
\* wouldMoveResultInCheck).
selectSquareValidMoves(state, inCheck, position) ==
    LET piece == At(state.board, position)
        rights ==
            [kingSide |-> IF piece.color = "white"
                          THEN state.castlingRights.whiteKingSide
                          ELSE state.castlingRights.blackKingSide,
             queenSide |-> IF piece.color = "white"
                           THEN state.castlingRights.whiteQueenSide
                           ELSE state.castlingRights.blackQueenSide]
        allMoves ==
            getValidMoves(state.board, position, piece)
            \o (IF piece.type = "k"
                THEN getCastlingMoves(state.board, position, piece.color, rights,
                                      inCheck)
                ELSE <<>>)
        legal(to) == ~wouldMoveResultInCheck(state.board, position, to, piece.color)
    IN  SelectSeq(allMoves, legal)

(***************************************************************************)
(* Positions the lines of play start from                                  *)
(***************************************************************************)

\* The board holding exactly the pieces <<row, col, type, color>>.
BoardOf(pieces) ==
    [r \in Rows |-> [c \in Cols |->
        IF \E p \in pieces : p[1] = r /\ p[2] = c
        THEN LET p == CHOOSE q \in pieces : q[1] = r /\ q[2] = c
             IN  Piece(p[3], p[4])
        ELSE Null]]

AllRights == Rights(TRUE, TRUE, TRUE, TRUE)

\* White's king and both rooks unmoved; a black pawn on white's second row
\* beside the square the white king lands on when castling towards column 7.
StartCastlePawn ==
    [board |-> BoardOf({ <<0, 3, "k", "white">>, <<0, 0, "r", "white">>,
                         <<0, 7, "r", "white">>, <<7, 3, "k", "black">>,
                         <<1, 6, "p", "black">> }),
     side |-> "white", rights |-> Rights(TRUE, TRUE, FALSE, FALSE)]

\* White's king, rooks and the knight of column 6 unmoved; black's king and
\* the rook of column 7 unmoved.
StartCastleKnight ==
    [board |-> BoardOf({ <<0, 3, "k", "white">>, <<0, 0, "r", "white">>,
                         <<0, 7, "r", "white">>, <<0, 6, "n", "white">>,
                         <<7, 3, "k", "black">>, <<7, 7, "r", "black">> }),
     side |-> "white", rights |-> Rights(TRUE, TRUE, TRUE, FALSE)]

StartPositions == {StartCastlePawn, StartCastleKnight}

Impls == {"negamax", "negamaxAttempt3", "chess2", "chess"}

MaxPly == 2

(***************************************************************************)
(* Lines of play: an engine's search line, or a host's game                *)
(***************************************************************************)

\* No line is being played.
IdleGame ==
    /\ impl = "none"
    /\ gameState = <<>>
    /\ lineHistory = <<>>
    /\ linePly = 0

\* No position is being hashed.
IdleHash == hashArgs = <<>> /\ hashKeys = <<>>

\* isThirdRepetition has not been called.
IdleProbe ==
    probe = [line |-> <<>>, called |-> FALSE, key |-> "", seen |-> <<>>,
             result |-> FALSE]

\* The transposition table as loaded: no entry. entries is the Map, order
\* its keys in insertion order (the order storeTT's eviction loop visits).
EmptyTable == [entries |-> <<>>, order |-> <<>>]

\* No function of the engine has been called by itself.
NotSearched == [fn |-> "none"]

\* The engine module as loaded: empty tables, no call made.
IdleSearch ==
    /\ transpositionTable = EmptyTable
    /\ currentAge = 0
    /\ killerMoves = <<>>
    /\ historyTable = <<>>
    /\ calls = <<>>
    /\ searched = NotSearched

Init ==
    /\ impl \in Impls
    /\ \E s \in StartPositions :
        /\ gameState =
            [board |-> s.board, currentPlayer |-> s.side,
             castlingRights |-> s.rights,
             isCheck |-> isKingInCheck(s.board, s.side),
             isCheckmate |-> FALSE, lastMove |-> NoMove]
        /\ lineHistory = IF impl = "negamax"
                         THEN <<hashPosition(s.board, s.side, s.rights)>>
                         ELSE <<>>
    /\ linePly = 0
    /\ IdleHash /\ IdleProbe /\ IdleSearch

\* One step down a search line of the negamax engine (the loop body of
\* negamax / searchRoot up to the recursive call).
NegamaxApply ==
    /\ impl = "negamax"
    /\ linePly < MaxPly
    /\ LET moves == getValidMovesForColor(gameState.board, gameState.currentPlayer,
                                          gameState.castlingRights)
       IN  \E i \in 1..Len(moves) :
            LET move == moves[i]
                newBoard == applyMove(gameState.board, move)
                newRights == updateCastlingRights(gameState.castlingRights, move,
                                                  gameState.board)
                nextColor == Opponent(gameState.currentPlayer)
                newHash == hashPosition(newBoard, nextColor, newRights)
            IN  /\ gameState' = [gameState EXCEPT
                                   !.board = newBoard,
                                   !.castlingRights = newRights,
                                   !.currentPlayer = nextColor,
                                   !.lastMove = move]
                /\ lineHistory' = Append(lineHistory, newHash)
    /\ linePly' = linePly + 1
    /\ UNCHANGED <<impl, hashVars, probe, searchVars>>

\* One step down a search line of negamaxAttempt3 (no history array).
Attempt3Apply ==
    /\ impl = "negamaxAttempt3"
    /\ linePly < MaxPly
    /\ LET moves == getValidMovesForColor(gameState.board, gameState.currentPlayer,
                                          gameState.castlingRights)
       IN  \E i \in 1..Len(moves) :
            LET move == moves[i]
            IN  gameState' = [gameState EXCEPT
                    !.board = applyMoveAttempt3(gameState.board, move),
                    !.castlingRights =
                        updateCastlingRights(gameState.castlingRights, move,
                                             gameState.board),
                    !.currentPlayer = Opponent(gameState.currentPlayer),
                    !.lastMove = move]
    /\ linePly' = linePly + 1
    /\ UNCHANGED <<impl, lineHistory, hashVars, probe, searchVars>>

\* The host adopts the GameState makeMove returned.
Adopt(new) ==
    /\ gameState' = new
    /\ linePly' = linePly + 1
    /\ UNCHANGED <<impl, lineHistory, hashVars, probe, searchVars>>

\* The squares holding a piece of the player to move.
OwnSquares ==
    {pos \in {Pos(r, c) : r \in Rows, c \in Cols} :
        /\ At(gameState.board, pos) # Null
        /\ At(gameState.board, pos).color = gameState.currentPlayer}

\* selectSquare twice: a piece of the player to move, then one of its
\* validMoves.
Chess2HumanMove ==
    /\ impl = "chess2"
    /\ linePly < MaxPly
    /\ \E from \in OwnSquares :
        LET valid == selectSquareValidMoves(gameState, gameState.isCheck, from)
        IN  \E i \in 1..Len(valid) :
               Adopt(makeMoveChess2(gameState, from, valid[i]))

\* makeAIMove: the worker's answer for the current position is applied.
Chess2AIMove ==
    /\ impl = "chess2"
    /\ linePly < MaxPly
    /\ LET moves == getValidMovesForColor(gameState.board, gameState.currentPlayer,
                                          gameState.castlingRights)
       IN  \E i \in 1..Len(moves) :
              Adopt(makeMoveChess2(gameState, moves[i].from, moves[i].to))

ChessHumanMove ==
    /\ impl = "chess"
    /\ linePly < MaxPly
    /\ \E from \in OwnSquares :
        LET valid == selectSquareValidMoves(gameState, gameState.isCheck, from)
        IN  \E i \in 1..Len(valid) :
               Adopt(makeMoveChess(gameState, from, valid[i]))

ChessAIMove ==
    /\ impl = "chess"
    /\ linePly < MaxPly
    /\ LET moves == getValidMovesForColor(gameState.board, gameState.currentPlayer,
                                          gameState.castlingRights)
       IN  \E i \in 1..Len(moves) :
              Adopt(makeMoveChess(gameState, moves[i].from, moves[i].to))

Next ==
    \/ NegamaxApply
    \/ Attempt3Apply
    \/ Chess2HumanMove
    \/ Chess2AIMove
    \/ ChessHumanMove
    \/ ChessAIMove

Spec == Init /\ [][Next]_vars

(***************************************************************************)
(* Claims about the lines of play                                          *)
(***************************************************************************)

\* The position of the line is one an engine or a host is playing.
InGame == impl \in Impls

\* The moves getValidMovesForColor returns for the position of the line.
LineMoves ==
    getValidMovesForColor(gameState.board, gameState.currentPlayer,
                          gameState.castlingRights)

\* C4: every move getValidMovesForColor returns for the position (ordinary
\* or castling) leaves the mover's own king unattacked once applyMove has
\* applied it.
C4_GeneratedMovesLeaveKingSafe ==
    InGame =>
        \A i \in 1..Len(LineMoves) :
            ~isKingInCheck(applyMove(gameState.board, LineMoves[i]),
                           gameState.currentPlayer)

\* The columns strictly between a and b.
ColsBetween(a, b) == {c \in Cols : (a < c /\ c < b) \/ (b < c /\ c < a)}

\* C5: getCastlingMoves offers a castling move only if the mover holds the
\* right of that side, the king is not in check, every square between king
\* and rook is empty, and the king would not stand attacked on any square it
\* crosses or lands on.
C5_CastlingOfferedOnlyWhenAllowed ==
    InGame =>
        LET board == gameState.board
            color == gameState.currentPlayer
            from == findKing(board, color)
            held == [kingSide |-> IF color = "white"
                                  THEN gameState.castlingRights.whiteKingSide
                                  ELSE gameState.castlingRights.blackKingSide,
                     queenSide |-> IF color = "white"
                                   THEN gameState.castlingRights.whiteQueenSide
                                   ELSE gameState.castlingRights.blackQueenSide]
            inCheck == isKingInCheck(board, color)
            offered == getCastlingMoves(board, from, color, held, inCheck)
        IN  \A i \in 1..Len(offered) :
                LET to == offered[i]
                    rookCol == IF to.col > from.col THEN 7 ELSE 0
                IN  /\ IF rookCol = 7 THEN held.kingSide ELSE held.queenSide
                    /\ ~inCheck
                    /\ \A c \in ColsBetween(from.col, rookCol) :
                          board[from.row][c] = Null
                    /\ \A c \in ColsBetween(from.col, to.col) \cup {to.col} :
                          ~wouldMoveResultInCheck(board, from, Pos(from.row, c), color)

\* C6: after a castling move of the generator (king from column 3 to column
\* 5 or 1) has been applied, the king stands on its destination, the rook of
\* that side on the square the king passed over, and the corner is empty.
C6_CastlingRelocatesKingAndRook ==
    (/\ InGame
     /\ gameState.lastMove.isCastling
     /\ gameState.lastMove.from.col = 3
     /\ gameState.lastMove.to.col \in {5, 1})
    =>
        LET move == gameState.lastMove
            row == move.from.row
            corner == IF move.to.col = 5 THEN 7 ELSE 0
            passed == IF move.to.col = 5 THEN 4 ELSE 2
        IN  /\ gameState.board[row][move.to.col] = Piece("k", move.piece.color)
            /\ gameState.board[row][passed] = Piece("r", move.piece.color)
            /\ gameState.board[row][corner] = Null
            /\ gameState.board[row][3] = Null

RightNames == {"whiteKingSide", "whiteQueenSide", "blackKingSide", "blackQueenSide"}

\* C7: along a game or a search line no move sets a castling right that is
\* false back to true.
C7_RightsOnceFalseStayFalse ==
    [][InGame =>
        \A r \in RightNames :
            ~gameState.castlingRights[r] => ~gameState'.castlingRights[r]]_vars

\* C7 witness: white lost both rights by moving its king, black has moved
\* since, and the rights are still false.
C7_Witness ==
    /\ InGame
    /\ linePly = 2
    /\ gameState.lastMove.piece.color = "black"
    /\ gameState.board[0][3] = Null
    /\ ~gameState.castlingRights.whiteKingSide
    /\ ~gameState.castlingRights.whiteQueenSide

(***************************************************************************)
(* hashPosition applied to pairs of positions                              *)
(***************************************************************************)

\* createInitialBoard after white's pawn of column 4 has advanced one row.
BoardAfterPawnMove ==
    applyMove(createInitialBoard,
              MkMove(Pos(1, 4), Pos(2, 4), Piece("p", "white"), Null, FALSE))

\* The positions hashed: three placements, both sides to move, castling
\* rights undefined, all held, none held, and all but one held.
HashPositions ==
    [board : {createInitialBoard, BoardAfterPawnMove, StartCastlePawn.board},
     side : {"white", "black"},
     rights : {NoRights, AllRights, Rights(FALSE, FALSE, FALSE, FALSE),
               Rights(TRUE, TRUE, TRUE, FALSE)}]

HashInit ==
    /\ hashArgs \in HashPositions \X HashPositions
    /\ hashKeys = <<>>
    /\ IdleGame /\ IdleProbe /\ IdleSearch

\* hashPosition is called on both positions.
HashBoth ==
    /\ hashKeys = <<>>
    /\ hashKeys' = [i \in 1..2 |->
            hashPosition(hashArgs[i].board, hashArgs[i].side, hashArgs[i].rights)]
    /\ UNCHANGED <<hashArgs, gameVars, probe, searchVars>>

HashNext == HashBoth

SpecHash == HashInit /\ [][HashNext]_vars

\* Identical piece placement, square by square.
SamePlacement(a, b) ==
    \A r \in Rows, c \in Cols : a.board[r][c] = b.board[r][c]

\* Identical castling rights: both undefined, or both given with the same
\* four flags.
SameRights(a, b) ==
    /\ a.rights.defined = b.rights.defined
    /\ a.rights.defined =>
          \A r \in {"whiteKingSide", "whiteQueenSide", "blackKingSide",
                     "blackQueenSide"} : a.rights[r] = b.rights[r]

\* C9: hashPosition gives two positions the same key exactly when they have
\* the same piece placement, the same side to move and the same castling
\* rights.
C9_SameKeyIffSamePosition ==
    hashKeys # <<>> =>
        ((hashKeys[1] = hashKeys[2])
            <=> (/\ SamePlacement(hashArgs[1], hashArgs[2])
                 /\ hashArgs[1].side = hashArgs[2].side
                 /\ SameRights(hashArgs[1], hashArgs[2])))

\* C9 witness: two positions that differ only in one castling right have
\* been hashed, and their keys differ.
C9_Witness ==
    /\ hashKeys # <<>>
    /\ SamePlacement(hashArgs[1], hashArgs[2])
    /\ hashArgs[1].side = hashArgs[2].side
    /\ hashArgs[1].rights = AllRights
    /\ hashArgs[2].rights = Rights(TRUE, TRUE, TRUE, FALSE)
    /\ hashKeys[1] # hashKeys[2]

(***************************************************************************)
(* isThirdRepetition along a history array                                 *)
(***************************************************************************)

MaxHistory == 7

\* The keys of three positions, in the order a cycle visits them.
CycleKeys ==
    << hashPosition(createInitialBoard, "white", AllRights),
       hashPosition(BoardAfterPawnMove, "black", AllRights),
       hashPosition(StartCastlePawn.board, "white", AllRights) >>

RepInit == IdleProbe /\ IdleGame /\ IdleHash /\ IdleSearch

\* The caller's positionHistory, copied into baseHistory, holds a further key.
CallerRecords ==
    /\ Len(probe.line) < MaxHistory
    /\ \E i \in 1..3 :
          probe' = [probe EXCEPT !.line = Append(@, CycleKeys[i])]
    /\ UNCHANGED <<gameVars, hashVars, searchVars>>

\* The loop body of negamax / searchRoot: the key of the position a move
\* leads to is tested against the history, and appended for the child when
\* the test fails.
EngineTests ==
    /\ Len(probe.line) < MaxHistory
    /\ \E i \in 1..3 :
          LET newHash == CycleKeys[i]
              repeated == isThirdRepetition(newHash, probe.line)
          IN  probe' = [line |-> IF repeated THEN probe.line
                                 ELSE Append(probe.line, newHash),
                        called |-> TRUE, key |-> newHash, seen |-> probe.line,
                        result |-> repeated]
    /\ UNCHANGED <<gameVars, hashVars, searchVars>>

RepNext == CallerRecords \/ EngineTests

SpecRep == RepInit /\ [][RepNext]_vars

\* How often key occurs in history.
Occurrences(key, history) ==
    Cardinality({i \in 1..Len(history) : history[i] = key})

\* history replays the cycle from its first key and key is the next key of
\* the cycle.
CycleReplayed(key, history) ==
    /\ \A i \in 1..Len(history) : history[i] = CycleKeys[((i - 1) % 3) + 1]
    /\ key = CycleKeys[(Len(history) % 3) + 1]

\* C8: isThirdRepetition(key, history) is true exactly when key occurs at
\* least twice in history; along a replayed three-position cycle it is false
\* for every move up to those creating a second occurrence and true for the
\* move that would create the first third occurrence.
C8_ThirdRepetitionIffTwiceSeen ==
    probe.called =>
        /\ probe.result <=> (Occurrences(probe.key, probe.seen) >= 2)
        /\ CycleReplayed(probe.key, probe.seen) =>
              (probe.result <=> (Len(probe.seen) >= 6))

\* C8 witness: the cycle has been replayed twice and the test of the move
\* that would create the third occurrence of its first position was true.
C8_Witness ==
    /\ probe.called
    /\ Len(probe.seen) = 6
    /\ CycleReplayed(probe.key, probe.seen)
    /\ probe.result

(***************************************************************************)
(* The negamax engine (part_007): tables, move ordering                    *)
(***************************************************************************)

\* PIECE_VALUES of the engine (move ordering only).
PIECE_VALUES ==
    [p |-> 100, n |-> 320, b |-> 330, r |-> 500, q |-> 900, k |-> 20000]

\* PIECE_VALUES of ai.ts, read by evaluateBoard.
AiPieceValues == [p |-> 10, n |-> 30, b |-> 30, r |-> 50, q |-> 90, k |-> 900]

\* What one square adds to score in the double loop of evaluateBoard.
SquareValue(board, aiColor, row, col) ==
    IF board[row][col] = Null THEN 0
    ELSE IF board[row][col].color = aiColor
    THEN AiPieceValues[board[row][col].type]
    ELSE -AiPieceValues[board[row][col].type]

\* What one pass of the inner loop (over col) of evaluateBoard adds;
\* squares[row * 8 + col] is what the square adds.
RowValue(squares, row) ==
    ((squares[row * 8] + squares[row * 8 + 1])
        + (squares[row * 8 + 2] + squares[row * 8 + 3]))
    + ((squares[row * 8 + 4] + squares[row * 8 + 5])
        + (squares[row * 8 + 6] + squares[row * 8 + 7]))

\* What the outer loop (over row) of evaluateBoard adds up.
BoardValue(squares) ==
    ((RowValue(squares, 0) + RowValue(squares, 1))
        + (RowValue(squares, 2) + RowValue(squares, 3)))
    + ((RowValue(squares, 4) + RowValue(squares, 5))
        + (RowValue(squares, 6) + RowValue(squares, 7)))

\* evaluateBoard of ai.ts: a noise-free material count, the evaluate
\* argument of the calls modelled.
evaluateBoard(board, aiColor) ==
    BoardValue([k \in 0..63 |-> SquareValue(board, aiColor, k \div 8, k % 8)])

MAX_TT_SIZE == 1000000

\* killerMoves.length
KillerMovesLength == 100

\* Infinity of the source: larger than every score and every mate bound.
Infinity == 1000000000

mateValue == 100000

Max(a, b) == IF a > b THEN a ELSE b

Min(a, b) == IF a < b THEN a ELSE b

\* What transpositionTable.get answers for a key it does not hold.
NoEntry ==
    [present |-> FALSE, depth |-> 0, score |-> 0, flag |-> "none",
     bestMove |-> NoMove, age |-> 0]

ttGet(table, hash) ==
    IF hash \in DOMAIN table.entries THEN table.entries[hash] ELSE NoEntry

RECURSIVE ToRemoveWithin(_, _, _, _, _)
\* The eviction loop of storeTT from position i of the insertion order, for
\* a table limited to size entries: the keys of entries older than
\* currentAge - 2, until more than a tenth of size are collected.
ToRemoveWithin(size, table, age, i, found) ==
    IF i > Len(table.order) THEN found
    ELSE LET key == table.order[i]
             next == IF table.entries[key].age < age - 2
                     THEN found \cup {key} ELSE found
         IN  IF Cardinality(next) > size \div 10 THEN next
             ELSE ToRemoveWithin(size, table, age, i + 1, next)

\* The eviction loop with the limit of the source.
ToRemove(table, age, i, found) ==
    ToRemoveWithin(MAX_TT_SIZE, table, age, i, found)

\* storeTT for a table limited to size entries.
storeTTWithin(size, table, age, hash, depth, score, flag, bestMove) ==
    LET removed == IF Len(table.order) >= size
                   THEN ToRemoveWithin(size, table, age, 1, {}) ELSE {}
        kept == IF removed = {} THEN table
                ELSE [entries |-> [k \in DOMAIN table.entries \ removed |->
                                      table.entries[k]],
                      order |-> SelectSeq(table.order, LAMBDA k : k \notin removed)]
        entry == [present |-> TRUE, depth |-> depth, score |-> score,
                  flag |-> flag, bestMove |-> bestMove, age |-> age]
    IN  [entries |-> (hash :> entry) @@ kept.entries,
         order |-> IF hash \in DOMAIN kept.entries THEN kept.order
                   ELSE Append(kept.order, hash)]

storeTT(table, age, hash, depth, score, flag, bestMove) ==
    storeTTWithin(MAX_TT_SIZE, table, age, hash, depth, score, flag, bestMove)

SameSquares(a, b) ==
    /\ a.from.row = b.from.row /\ a.from.col = b.from.col
    /\ a.to.row = b.to.row /\ a.to.col = b.to.col

\* killerMoves[ply]; a ply no killer was stored for holds the empty list.
killersAt(killers, ply) == IF ply \in DOMAIN killers THEN killers[ply] ELSE <<>>

\* clearKillers(): every ply holds the empty list again.
clearKillers(killers) == <<>>

storeKiller(killers, move, ply) ==
    LET old == killersAt(killers, ply)
        unshifted == <<move>> \o old
    IN  IF ply >= KillerMovesLength THEN killers
        ELSE IF move.captured # Null THEN killers
        ELSE IF \E i \in 1..Len(old) : SameSquares(old[i], move) THEN killers
        ELSE (ply :> (IF Len(unshifted) > 2 THEN SubSeq(unshifted, 1, 2)
                      ELSE unshifted)) @@ killers

\* historyTable[from.row][from.col][to.row][to.col]; 0 until first updated.
historyAt(history, move) ==
    LET at == <<move.from.row, move.from.col, move.to.row, move.to.col>>
    IN  IF at \in DOMAIN history THEN history[at] ELSE 0

updateHistory(history, move, depth) ==
    LET at == <<move.from.row, move.from.col, move.to.row, move.to.col>>
    IN  (at :> (historyAt(history, move) + depth * depth)) @@ history

scoreMove(killers, history, move, ply, ttBestMove) ==
    LET ks == killersAt(killers, ply)
    IN  IF ttBestMove # NoMove /\ SameSquares(ttBestMove, move) THEN 1000000
        ELSE IF move.captured # Null
        THEN 100000 + (PIECE_VALUES[move.captured.type] * 10
                       - PIECE_VALUES[move.piece.type])
        ELSE IF move.promotion # "none" THEN 90000 + PIECE_VALUES[move.promotion]
        ELSE IF ply < KillerMovesLength /\ Len(ks) >= 1 /\ SameSquares(ks[1], move)
        THEN 80000
        ELSE IF ply < KillerMovesLength /\ Len(ks) >= 2 /\ SameSquares(ks[2], move)
        THEN 70000
        ELSE historyAt(history, move)

\* The place of element j when the elements are sorted by descending
\* score, equal scores in their given order: behind every element of
\* higher score and every earlier element of equal score.
RankByScore(scores, j) ==
    1 + Cardinality({k \in 1..Len(scores) :
                        \/ scores[k] > scores[j]
                        \/ scores[k] = scores[j] /\ k < j})

\* moves in the order of their places; scores is a tuple of the scores.
InRankOrder(moves, scores) ==
    SubSeq([i \in 1..Len(moves) |->
               moves[CHOOSE j \in 1..Len(moves) : RankByScore(scores, j) = i]],
           1, Len(moves))

\* moves sorted by descending score, equal scores in their given order (the
\* sort of Array.prototype.sort is stable).
SortByScore(moves, scores) ==
    InRankOrder(moves, SubSeq(scores, 1, Len(moves)))

orderMoves(killers, history, moves, ply, ttBestMove) ==
    SortByScore(moves, [i \in 1..Len(moves) |->
                          scoreMove(killers, history, moves[i], ply, ttBestMove)])

(***************************************************************************)
(* The negamax engine (part_007): myMinimaxMove                            *)
(*                                                                         *)
(* A call is the record args: board, color, depth, timed (maxTime given),  *)
(* expireAt, castlingRights, age (currentAge during the call). The clock   *)
(* is an input: with a time budget, the test Date.now() - startTime >      *)
(* maxTime is false the first expireAt times it is evaluated and true from *)
(* then on.                                                                *)
(* The search threads the record st: tt, killers, hist (the module-level   *)
(* tables), clock (evaluations of the time test so far), timeExpired and   *)
(* best (bestMoveAtRoot, both closure variables of the call).              *)
(* Each function is written as the sequence of its steps, one operator per *)
(* step, every step handing the values computed so far to the next.        *)
(***************************************************************************)

\* isTimeExpired(): the answer is timeExpired of the record returned.
isTimeExpired(args, st) ==
    IF st.timeExpired THEN st
    ELSE IF ~args.timed THEN st
    ELSE IF st.clock >= args.expireAt THEN [st EXCEPT !.timeExpired = TRUE]
    ELSE [st EXCEPT !.clock = @ + 1]

\* What a search function returns: its value and the state it leaves.
Ret(score, st) == [score |-> score, st |-> st]

\* A repetition score read off the root's evaluation without the sign of
\* the side to move.
RepetitionScoreFromRoot(evalFromRoot, sideToMove, rootColor) ==
    IF evalFromRoot > 200 THEN -150
    ELSE IF evalFromRoot < -200 THEN 150
    ELSE 0

\* The score both searches give a move that repeats a position a third time.
RepetitionScore(evalFromRoot, sideToMove, rootColor) ==
    LET evalFromSide == IF sideToMove = rootColor THEN evalFromRoot
                        ELSE -evalFromRoot
    IN  IF evalFromSide > 200 THEN -150
        ELSE IF evalFromSide < -200 THEN 150
        ELSE 0

\* The position a move leads to: board, castling rights, key.
ChildOf(board, sideToMove, rights, move) ==
    LET newBoard == applyMove(board, move)
        newRights == updateCastlingRights(rights, move, board)
    IN  [board |-> newBoard, rights |-> newRights,
         hash |-> hashPosition(newBoard, Opponent(sideToMove), newRights)]

RECURSIVE quiescence(_, _, _, _, _, _, _)
RECURSIVE QuiescenceLoop(_, _, _, _, _, _)
RECURSIVE negamax(_, _, _, _, _, _, _, _, _, _, _)
RECURSIVE NegamaxLoop(_, _, _, _, _, _)
RECURSIVE RootLoop(_, _, _, _, _, _)
RECURSIVE Deepen(_, _, _, _, _)

(* The for loops of quiescence, negamax and searchRoot run over the moves  *)
(* numbered first..last, half by half. Each threads the record acc: the    *)
(* loop's variables, the state, and done, which is set when the function   *)
(* has returned or the loop has been left by break, so that no later move  *)
(* is looked at.                                                           *)

\* quiescence, loop body: the time test, then the capture is searched
\* (child): return beta, or the new alpha. The record of quiescence's loop
\* holds alpha in score, since alpha is what quiescence returns.
QuiescenceMove(args, st1, node, acc, child) ==
    CASE st1.timeExpired -> [acc EXCEPT !.st = st1, !.done = TRUE]
      [] /\ ~st1.timeExpired
         /\ child.score <= -node.beta ->
            [score |-> node.beta, st |-> child.st, done |-> TRUE]
      [] OTHER ->
            [score |-> Max(acc.score, -child.score), st |-> child.st,
             done |-> FALSE]

\* quiescence, the rest of the loop unless it has been left.
QuiescenceRest(args, node, captures, first, last, acc) ==
    IF acc.done THEN acc
    ELSE QuiescenceLoop(args, node, captures, first, last, acc)

\* The for loop of quiescence over captures[first..last], first <= last.
QuiescenceLoop(args, node, captures, first, last, acc) ==
    IF first = last
    THEN QuiescenceMove(args, isTimeExpired(args, acc.st), node, acc,
            quiescence(args, isTimeExpired(args, acc.st),
                       applyMove(node.board, captures[first]),
                       Opponent(node.sideToMove), -node.beta, -acc.score,
                       updateCastlingRights(node.rights, captures[first],
                                            node.board)))
    ELSE QuiescenceRest(args, node, captures, (first + last) \div 2 + 1, last,
            QuiescenceLoop(args, node, captures, first, (first + last) \div 2,
                           acc))

\* captures.sort of quiescence: most valuable victim, least valuable attacker.
SortCaptures(captures) ==
    SortByScore(captures, [i \in 1..Len(captures) |->
        PIECE_VALUES[captures[i].captured.type] * 10
        - PIECE_VALUES[captures[i].piece.type]])

\* quiescence: the captures are sorted and looped over, if there are any.
QuiescenceCaptures(args, node, captures, acc) ==
    IF Len(captures) = 0 THEN acc
    ELSE QuiescenceLoop(args, node, SortCaptures(captures), 1, Len(captures),
                        acc)

\* quiescence after the time test: 0 on expiry, beta when standing pat
\* reaches it, else the loop over the captures with alpha raised to the
\* stand-pat value.
QuiescenceStand(args, st1, node, alpha) ==
    CASE st1.timeExpired -> [score |-> 0, st |-> st1, done |-> TRUE]
      [] /\ ~st1.timeExpired
         /\ node.standPat >= node.beta ->
            [score |-> node.beta, st |-> st1, done |-> TRUE]
      [] OTHER ->
            QuiescenceCaptures(args, node,
                SelectSeq(
                    getValidMovesForColor(node.board, node.sideToMove,
                                          node.rights),
                    LAMBDA m : m.captured # Null),
                [score |-> Max(alpha, node.standPat), st |-> st1,
                 done |-> FALSE])

\* quiescence returns the record of its loop: the value in score, the state
\* in st. node holds the arguments the loop reads and standPat.
quiescence(args, st, board, sideToMove, alpha, beta, rights) ==
    QuiescenceStand(args, isTimeExpired(args, st),
        [board |-> board, sideToMove |-> sideToMove, beta |-> beta,
         rights |-> rights,
         standPat |-> (IF sideToMove = args.color THEN 1 ELSE -1)
                         * evaluateBoard(board, args.color)],
        alpha)

\* negamax, loop body after the move is scored: bestScore, bestMoveLocal,
\* alpha, killers and history, and the break on alpha >= beta.
NegamaxUpdate(node, move, acc, score, st) ==
    LET better == score > acc.bestScore
        bestScore == IF better THEN score ELSE acc.bestScore
        raised == bestScore > acc.alpha
    IN  [alpha |-> IF raised THEN bestScore ELSE acc.alpha,
         bestScore |-> bestScore,
         bestMoveLocal |-> IF better THEN move ELSE acc.bestMoveLocal,
         movesSearched |-> acc.movesSearched + 1,
         st |-> IF raised /\ move.captured = Null
                THEN [st EXCEPT
                        !.killers = storeKiller(@, move, node.ply),
                        !.hist = updateHistory(@, move, node.depth)]
                ELSE st,
         done |-> (IF raised THEN bestScore ELSE acc.alpha) >= node.beta]

\* negamax, loop body: the score of the search at full depth.
NegamaxResearched(node, move, acc, second) ==
    NegamaxUpdate(node, move, acc, -second.score, second.st)

\* The depth negamax hands to itself for a move of its loop: with the
\* reduction of a late move, or, with reduction 0, for the first move and
\* for the re-search.
ChildDepthKept(depth, reduction) == depth - reduction

ChildDepth(depth, reduction) == depth - 1 - reduction

\* The depth negamax hands to itself for the null move.
NullDepth(depth) == depth - 1 - 2

\* Late Move Reduction: the depth taken off a later quiet move.
Reduction(node, move, movesSearched) ==
    IF /\ movesSearched >= 4
       /\ node.depth >= 3
       /\ ~node.inCheck
       /\ move.captured = Null
       /\ move.promotion = "none"
    THEN 1 ELSE 0

\* negamax, loop body: the time test; the move is applied (child); the
\* repetition score, or the search of the child at the depth left after the
\* reduction (first); a late move searched at reduced depth is searched
\* again at full depth when its score beats alpha.
NegamaxMove(args, node, move, acc, st1, child) ==
    LET first ==
            negamax(args, st1, child.board, Opponent(node.sideToMove),
                    ChildDepth(node.depth,
                        Reduction(node, move, acc.movesSearched)),
                    -node.beta, -acc.alpha, child.rights, node.ply + 1, TRUE,
                    Append(node.history, child.hash))
    IN  CASE st1.timeExpired -> [acc EXCEPT !.st = st1, !.done = TRUE]
          [] /\ ~st1.timeExpired
             /\ isThirdRepetition(child.hash, node.history) ->
                NegamaxUpdate(node, move, acc,
                    RepetitionScore(evaluateBoard(child.board, args.color),
                                    node.sideToMove, args.color),
                    st1)
          [] /\ ~st1.timeExpired
             /\ ~isThirdRepetition(child.hash, node.history)
             /\ first.score < -acc.alpha
             /\ Reduction(node, move, acc.movesSearched) > 0 ->
                NegamaxResearched(node, move, acc,
                    negamax(args, first.st, child.board,
                            Opponent(node.sideToMove),
                            ChildDepth(node.depth, 0),
                            -node.beta, -acc.alpha, child.rights,
                            node.ply + 1, TRUE,
                            Append(node.history, child.hash)))
          [] OTHER -> NegamaxUpdate(node, move, acc, -first.score, first.st)

\* negamax, the rest of the loop unless it has been left.
NegamaxRest(args, node, moves, first, last, acc) ==
    IF acc.done THEN acc
    ELSE NegamaxLoop(args, node, moves, first, last, acc)

\* The for loop of negamax over moves[first..last], first <= last. node
\* holds what the loop reads and does not change; acc holds alpha,
\* bestScore, bestMoveLocal, movesSearched and the threaded state.
NegamaxLoop(args, node, moves, first, last, acc) ==
    IF first = last
    THEN NegamaxMove(args, node, moves[first], acc,
            isTimeExpired(args, acc.st),
            ChildOf(node.board, node.sideToMove, node.rights, moves[first]))
    ELSE NegamaxRest(args, node, moves, (first + last) \div 2 + 1, last,
            NegamaxLoop(args, node, moves, first, (first + last) \div 2, acc))

\* negamax storing the node whatever the time test answered.
NegamaxStoredAfterExpiry(args, node, loop, st3) ==
    Ret(loop.bestScore,
        [st3 EXCEPT !.tt =
            storeTT(@, args.age, node.hash, node.depth, loop.bestScore,
                    IF loop.bestScore <= node.alphaOrig THEN "alpha"
                    ELSE IF loop.bestScore >= node.beta THEN "beta"
                    ELSE "exact",
                    loop.bestMoveLocal)])

\* negamax, after the loop and its time test: the node is stored unless the
\* time has expired.
NegamaxStored(args, node, loop, st3) ==
    IF st3.timeExpired THEN Ret(loop.bestScore, st3)
    ELSE Ret(loop.bestScore,
             [st3 EXCEPT !.tt =
                storeTT(@, args.age, node.hash, node.depth, loop.bestScore,
                        IF loop.bestScore <= node.alphaOrig THEN "alpha"
                        ELSE IF loop.bestScore >= node.beta THEN "beta"
                        ELSE "exact",
                        loop.bestMoveLocal)])

\* negamax, after the loop: the time test, which answers at once when the
\* time expired inside the loop.
NegamaxStore(args, node, loop) ==
    IF loop.st.timeExpired THEN Ret(loop.bestScore, loop.st)
    ELSE NegamaxStored(args, node, loop, isTimeExpired(args, loop.st))

\* negamax: the loop over the ordered moves, and what follows it.
NegamaxOrdered(args, st2, node, ordered) ==
    NegamaxStore(args, node,
        NegamaxLoop(args, node, ordered, 1, Len(ordered),
            [alpha |-> node.alpha, bestScore |-> -Infinity,
             bestMoveLocal |-> NoMove, movesSearched |-> 0,
             st |-> st2, done |-> FALSE]))

\* negamax: the outcome of the null-move search; then the moves are ordered
\* and searched.
NegamaxAfterNull(args, node, ttEntry, moves, inCheck, nullSearch) ==
    IF -nullSearch.score >= node.beta
    THEN Ret(node.beta, nullSearch.st)
    ELSE NegamaxOrdered(args, nullSearch.st,
            [node EXCEPT !.inCheck = inCheck],
            orderMoves(nullSearch.st.killers, nullSearch.st.hist, moves,
                       node.ply, ttEntry.bestMove))

\* A null-move test that does not look at the check.
NullMoveTriedInCheck(allowNull, inCheck, depth) == allowNull /\ depth >= 3

\* The condition of null-move pruning in negamax.
NullMoveTried(allowNull, inCheck, depth) ==
    allowNull /\ ~inCheck /\ depth >= 3

\* negamax from move generation on: no move is mate or stalemate; null-move
\* pruning; else the moves are ordered and searched.
NegamaxMoves(args, st1, node, ttEntry, moves, inCheck) ==
    CASE Len(moves) = 0 ->
            Ret(IF inCheck THEN -mateValue + node.ply ELSE 0, st1)
      [] /\ Len(moves) # 0
         /\ NullMoveTried(node.allowNull, inCheck, node.depth) ->
            NegamaxAfterNull(args, node, ttEntry, moves, inCheck,
                negamax(args, st1, node.board, Opponent(node.sideToMove),
                        NullDepth(node.depth), -node.beta, -node.beta + 1,
                        node.rights, node.ply + 1, FALSE, node.history))
      [] OTHER ->
            NegamaxOrdered(args, st1, [node EXCEPT !.inCheck = inCheck],
                orderMoves(st1.killers, st1.hist, moves, node.ply,
                           ttEntry.bestMove))

\* The transposition-table entry answers for the node.
TTHit(node, ttEntry) ==
    /\ ttEntry.present
    /\ ttEntry.depth >= node.depth
    /\ \/ ttEntry.flag = "exact"
       \/ ttEntry.flag = "alpha" /\ ttEntry.score <= node.alpha
       \/ ttEntry.flag = "beta" /\ ttEntry.score >= node.beta

\* negamax on the node record (the arguments, alpha and beta after
\* mate-distance pruning, alphaOrig and hash): the returns in the order of
\* the source, each under the negation of the tests before it: the time
\* test, mate-distance pruning, the transposition table, the leaf.
NegamaxNode(args, st1, node) ==
    CASE st1.timeExpired -> Ret(0, st1)
      [] /\ ~st1.timeExpired
         /\ node.alpha >= node.beta -> Ret(node.alpha, st1)
      [] /\ ~st1.timeExpired
         /\ node.alpha < node.beta
         /\ TTHit(node, ttGet(st1.tt, node.hash)) ->
            Ret(ttGet(st1.tt, node.hash).score, st1)
      [] /\ ~st1.timeExpired
         /\ node.alpha < node.beta
         /\ ~TTHit(node, ttGet(st1.tt, node.hash))
         /\ node.depth <= 0 ->
            quiescence(args, st1, node.board, node.sideToMove, node.alpha,
                       node.beta, node.rights)
      [] OTHER ->
            NegamaxMoves(args, st1, node, ttGet(st1.tt, node.hash),
                getValidMovesForColor(node.board, node.sideToMove, node.rights),
                isKingInCheck(node.board, node.sideToMove))

negamax(args, st, board, sideToMove, depth, alpha, beta, rights, ply, allowNull, history) ==
    NegamaxNode(args, isTimeExpired(args, st),
        [board |-> board, sideToMove |-> sideToMove, depth |-> depth,
         alphaOrig |-> alpha,
         alpha |-> Max(alpha, -mateValue + ply),
         beta |-> Min(beta, mateValue - ply - 1),
         rights |-> rights, ply |-> ply, allowNull |-> allowNull,
         history |-> history, inCheck |-> FALSE,
         hash |-> hashPosition(board, sideToMove, rights)])

\* searchRoot, loop body after the move is scored: bestScore,
\* bestMoveAtRoot (best of the threaded state), alpha, and the break on
\* alpha >= beta.
RootUpdate(root, move, acc, score, st) ==
    LET better == score > acc.bestScore
        bestScore == IF better THEN score ELSE acc.bestScore
    IN  [alpha |-> Max(acc.alpha, bestScore),
         bestScore |-> bestScore,
         st |-> IF better THEN [st EXCEPT !.best = move] ELSE st,
         done |-> Max(acc.alpha, bestScore) >= root.beta]

\* searchRoot, loop body: the score of the search with the full window.
RootResearched(root, move, acc, second) ==
    RootUpdate(root, move, acc, -second.score, second.st)

\* searchRoot, loop body: the time test; the move is applied (child); the
\* repetition score, or the search of the child (first) and the aspiration
\* re-search on fail-low or fail-high.
RootMove(args, root, move, acc, st1, child) ==
    LET first ==
            negamax(args, st1, child.board, Opponent(args.color),
                    root.depth - 1, -root.beta, -acc.alpha, child.rights, 1,
                    TRUE, Append(root.history, child.hash))
    IN  CASE st1.timeExpired -> [acc EXCEPT !.st = st1, !.done = TRUE]
          [] /\ ~st1.timeExpired
             /\ isThirdRepetition(child.hash, root.history) ->
                RootUpdate(root, move, acc,
                    RepetitionScore(evaluateBoard(child.board, args.color),
                                    args.color, args.color),
                    st1)
          [] /\ ~st1.timeExpired
             /\ ~isThirdRepetition(child.hash, root.history)
             /\ \/ first.score >= -acc.alpha
                \/ first.score <= -root.beta
             /\ root.depth > 3 ->
                RootResearched(root, move, acc,
                    negamax(args, first.st, child.board, Opponent(args.color),
                            root.depth - 1, -Infinity, Infinity, child.rights,
                            1, TRUE, Append(root.history, child.hash)))
          [] OTHER -> RootUpdate(root, move, acc, -first.score, first.st)

\* searchRoot, the rest of the loop unless it has been left.
RootRest(args, root, moves, first, last, acc) ==
    IF acc.done THEN acc
    ELSE RootLoop(args, root, moves, first, last, acc)

\* The for loop of searchRoot over moves[first..last], first <= last. root
\* holds depth, beta and history; acc holds alpha, bestScore and the
\* threaded state.
RootLoop(args, root, moves, first, last, acc) ==
    IF first = last
    THEN RootMove(args, root, moves[first], acc, isTimeExpired(args, acc.st),
            ChildOf(args.board, args.color, args.castlingRights, moves[first]))
    ELSE RootRest(args, root, moves, (first + last) \div 2 + 1, last,
            RootLoop(args, root, moves, first, (first + last) \div 2, acc))

\* searchRoot: the window, then the loop over the ordered moves.
RootWindow(args, st1, depth, history, ordered, narrowed, previousScore) ==
    RootLoop(args,
        [depth |-> depth, history |-> history,
         beta |-> IF narrowed THEN previousScore + 50 ELSE Infinity],
        ordered, 1, Len(ordered),
        [alpha |-> IF narrowed THEN previousScore - 50 ELSE -Infinity,
         bestScore |-> -Infinity, st |-> st1, done |-> FALSE]).st

\* searchRoot after the time test: no move ends it; else the moves are
\* ordered.
RootMoves(args, st1, depth, history, moves) ==
    CASE st1.timeExpired -> st1
      [] /\ ~st1.timeExpired
         /\ Len(moves) = 0 -> st1
      [] OTHER ->
            RootWindow(args, st1, depth, history,
                orderMoves(st1.killers, st1.hist, moves, 0,
                    ttGet(st1.tt, hashPosition(args.board, args.color,
                                               args.castlingRights)).bestMove),
                depth > 3 /\ st1.best # NoMove,
                evaluateBoard(args.board, args.color))

\* searchRoot(depth, history): the state it leaves; its return value is not
\* read by the caller.
searchRoot(args, st, depth, history) ==
    RootMoves(args, isTimeExpired(args, st), depth, history,
        getValidMovesForColor(args.board, args.color, args.castlingRights))

\* The fallback with no first legal move to fall back to.
NoFallback(allMoves) == NoMove

\* bestMoveAtRoot before the first iteration: the first legal move, if any.
Fallback(allMoves) == IF Len(allMoves) > 0 THEN allMoves[1] ELSE NoMove

\* The time test after searchRoot leaving bestMoveAtRoot as the iteration
\* set it.
KeepPartial(expired, currentDepth, previousBest) == expired

\* The time test after searchRoot: on expiry beyond depth 1, bestMoveAtRoot
\* is set back to previousBest.
RestorePrevious(expired, currentDepth, previousBest) ==
    IF expired.timeExpired /\ currentDepth > 1
    THEN [expired EXCEPT !.best = previousBest]
    ELSE expired

\* The record of one iteration: its depth, bestMoveAtRoot as searchRoot left
\* it, whether the time expired inside searchRoot (interrupted) and whether
\* the time test after it answered true (expired).
Iteration(currentDepth, st2, st3) ==
    [depth |-> currentDepth, best |-> st2.best,
     interrupted |-> st2.timeExpired, expired |-> st3.timeExpired]

\* What myMinimaxMove returns and leaves: bestMoveAtRoot, the record of its
\* iterations and the module's tables.
Returned(args, st, iterations) ==
    [move |-> st.best,
     iterations |-> iterations,
     tables |-> [transpositionTable |-> st.tt, currentAge |-> args.age,
                 killerMoves |-> st.killers, historyTable |-> st.hist]]

\* transpositionTable.get(hash) for the root position.
RootEntry(args, st) ==
    ttGet(st.tt, hashPosition(args.board, args.color, args.castlingRights))

\* The deepening loop, end of the body: break on expiry beyond depth 1 or on
\* a mate score stored for the root, else the next depth.
DeepenNext(args, baseHistory, currentDepth, done, st4) ==
    CASE st4.timeExpired /\ currentDepth > 1 -> Returned(args, st4, done)
      [] /\ ~(st4.timeExpired /\ currentDepth > 1)
         /\ st4.best # NoMove
         /\ RootEntry(args, st4).present
         /\ Abs(RootEntry(args, st4).score) > 99000 ->
            Returned(args, st4, done)
      [] OTHER -> Deepen(args, st4, baseHistory, currentDepth + 1, done)

\* The deepening loop, body after searchRoot: the time test, which answers
\* at once when the time expired inside searchRoot, and bestMoveAtRoot
\* restored.
DeepenSearched(args, baseHistory, currentDepth, iterations, previousBest, st2) ==
    IF st2.timeExpired
    THEN DeepenNext(args, baseHistory, currentDepth,
            Append(iterations, Iteration(currentDepth, st2, st2)),
            RestorePrevious(st2, currentDepth, previousBest))
    ELSE DeepenNext(args, baseHistory, currentDepth,
            Append(iterations,
                   Iteration(currentDepth, st2, isTimeExpired(args, st2))),
            RestorePrevious(isTimeExpired(args, st2), currentDepth,
                            previousBest))

\* The iterative-deepening loop from currentDepth on (depth 0 stands for
\* depth 1000): the loop's condition, the time test at the head of the
\* body, previousBest and searchRoot.
Deepen(args, st, baseHistory, currentDepth, iterations) ==
    CASE currentDepth > (IF args.depth = 0 THEN 1000 ELSE args.depth) ->
            Returned(args, st, iterations)
      [] /\ currentDepth <= (IF args.depth = 0 THEN 1000 ELSE args.depth)
         /\ isTimeExpired(args, st).timeExpired ->
            Returned(args, isTimeExpired(args, st), iterations)
      [] OTHER ->
            DeepenSearched(args, baseHistory, currentDepth, iterations,
                st.best,
                searchRoot(args, isTimeExpired(args, st), currentDepth,
                           baseHistory))

\* myMinimaxMove(board, color, depth, evaluateBoard, maxTime,
\* castlingRights, positionHistory) run on the module's tables: currentAge
\* is advanced, the killers are cleared, the fallback is set, and the
\* deepening loop runs.
myMinimaxMove(tables, args) ==
    Deepen([board |-> args.board, color |-> args.color,
            depth |-> args.depth, timed |-> args.timed,
            expireAt |-> args.expireAt,
            castlingRights |-> args.castlingRights,
            age |-> tables.currentAge + 1],
           [tt |-> tables.transpositionTable,
            killers |-> clearKillers(tables.killerMoves),
            hist |-> tables.historyTable, clock |-> 0,
            timeExpired |-> FALSE,
            best |-> Fallback(getValidMovesForColor(
                        args.board, args.color, args.castlingRights))],
           Append(args.positionHistory,
                  hashPosition(args.board, args.color, args.castlingRights)),
           1, <<>>)

(***************************************************************************)
(* Calls of myMinimaxMove                                                  *)
(***************************************************************************)

\* White to move with knight (5,3) against pawn (4,0): the knight's move to
\* (6,1) checks the black king on (7,3) and attacks the pawn.
RootFork ==
    [board |-> BoardOf({ <<0, 7, "k", "white">>, <<5, 3, "n", "white">>,
                         <<7, 3, "k", "black">>, <<4, 0, "p", "black">> }),
     color |-> "white",
     castlingRights |-> Rights(FALSE, FALSE, FALSE, FALSE),
     positionHistory |-> <<>>]

\* White to move, not in check, and without a legal move.
RootStalemate ==
    [board |-> BoardOf({ <<0, 0, "k", "white">>, <<1, 2, "q", "black">>,
                         <<7, 7, "k", "black">> }),
     color |-> "white",
     castlingRights |-> Rights(FALSE, FALSE, FALSE, FALSE),
     positionHistory |-> <<>>]

\* The same board with black to move: black is a knight down, and its first
\* generated move is the pawn's step to (3,0).
RootBehind == [RootFork EXCEPT !.color = "black"]

SearchRoots == {RootFork, RootBehind, RootStalemate}

MaxDepth == 2

MaxClock == 100

\* The module's tables, as myMinimaxMove reads them.
Tables ==
    [transpositionTable |-> transpositionTable, currentAge |-> currentAge,
     killerMoves |-> killerMoves, historyTable |-> historyTable]

\* The arguments of a call on a root position.
ArgsOf(root, depth, timed, expireAt) ==
    [board |-> root.board, color |-> root.color, depth |-> depth,
     timed |-> timed, expireAt |-> expireAt,
     castlingRights |-> root.castlingRights,
     positionHistory |-> root.positionHistory]

\* The return of a call: the module's tables as the call leaves them, and
\* the call recorded.
Return(args, out) ==
    /\ transpositionTable' = out.tables.transpositionTable
    /\ currentAge' = out.tables.currentAge
    /\ killerMoves' = out.tables.killerMoves
    /\ historyTable' = out.tables.historyTable
    /\ calls' = Append(calls, [args |-> args, move |-> out.move,
                                iterations |-> out.iterations])
    /\ UNCHANGED <<gameVars, hashVars, probe, searched>>

\* One call of myMinimaxMove, start to return.
Call(root, depth, timed, expireAt) ==
    Return(ArgsOf(root, depth, timed, expireAt),
           myMinimaxMove(Tables, ArgsOf(root, depth, timed, expireAt)))

SearchInit == IdleSearch /\ IdleGame /\ IdleHash /\ IdleProbe

\* The first call after the module is loaded, with a time budget that runs
\* out at the time test number expireAt + 1.
TimedSearch ==
    /\ calls = <<>>
    /\ \E root \in SearchRoots, depth \in 1..MaxDepth, expireAt \in 0..MaxClock :
          Call(root, depth, TRUE, expireAt)

\* The first call after the module is loaded, without a time budget.
UntimedSearch ==
    /\ calls = <<>>
    /\ \E root \in SearchRoots, depth \in 1..MaxDepth :
          Call(root, depth, FALSE, 0)

SearchNext == TimedSearch \/ UntimedSearch

SpecSearch == SearchInit /\ [][SearchNext]_vars

\* The generator's moves at the root of a recorded call (allMoves).
AllMovesOf(call) ==
    getValidMovesForColor(call.args.board, call.args.color,
                          call.args.castlingRights)

(***************************************************************************)
(* C1: myMinimaxMove returns null only when the side to move has no legal  *)
(* move at the root; when a legal move exists it returns one of the        *)
(* generator's root moves, for every depth and every time budget, also a   *)
(* budget that expires before or during the first iteration.               *)
(***************************************************************************)
C1_NullOnlyWithoutLegalMove ==
    \A n \in 1..Len(calls) :
        IF Len(AllMovesOf(calls[n])) = 0
        THEN calls[n].move = NoMove
        ELSE /\ calls[n].move # NoMove
             /\ InSeq(calls[n].move, AllMovesOf(calls[n]))

\* C1 witness: a budget that expired before the first iteration, on a root
\* with legal moves, and the call returning one of them.
C1_Witness ==
    \E n \in 1..Len(calls) :
        /\ calls[n].args.timed
        /\ calls[n].iterations = <<>>
        /\ Len(AllMovesOf(calls[n])) > 0
        /\ InSeq(calls[n].move, AllMovesOf(calls[n]))

(***************************************************************************)
(* C2: when the time budget expires while the root search at depth d >= 2  *)
(* is running, myMinimaxMove returns the best move recorded at the end of  *)
(* depth d-1, not a move chosen by the interrupted iteration.              *)
(***************************************************************************)
C2_ExpiryKeepsPreviousDepth ==
    \A n \in 1..Len(calls) :
        \A d \in 2..Len(calls[n].iterations) :
            calls[n].iterations[d].interrupted
                => calls[n].move = calls[n].iterations[d - 1].best

\* C2 witness: an interrupted iteration at depth d >= 2 that had chosen
\* another move than depth d-1, and the call returning the move of d-1.
C2_Witness ==
    \E n \in 1..Len(calls) :
        \E d \in 2..Len(calls[n].iterations) :
            /\ calls[n].iterations[d].interrupted
            /\ calls[n].iterations[d].best # calls[n].iterations[d - 1].best
            /\ calls[n].move = calls[n].iterations[d - 1].best

(***************************************************************************)
(* C3: when the time budget expires before the depth-1 root search has     *)
(* completed, myMinimaxMove returns allMoves[0], the first move of the     *)
(* generator for the root position.                                        *)
(***************************************************************************)
C3_ExpiryInFirstDepthReturnsFirstMove ==
    \A n \in 1..Len(calls) :
        /\ calls[n].args.timed
        /\ Len(AllMovesOf(calls[n])) > 0
        /\ \/ calls[n].iterations = <<>>
           \/ calls[n].iterations[1].interrupted
        => calls[n].move = AllMovesOf(calls[n])[1]

(***************************************************************************)
(* Repeated calls without a time budget in one module instance             *)
(***************************************************************************)

MaxCalls == 3

\* One more call without a time budget, on the tables the earlier calls
\* left.
RepeatSearch ==
    /\ Len(calls) < MaxCalls
    /\ \E root \in SearchRoots, depth \in 1..MaxDepth :
          Call(root, depth, FALSE, 0)

SpecRepeat == SearchInit /\ [][RepeatSearch]_vars

(***************************************************************************)
(* C10: with a noise-free evaluation, no time budget and a fixed depth,    *)
(* two calls of myMinimaxMove with identical arguments return the same     *)
(* move, whatever other searches ran earlier in the same module instance.  *)
(***************************************************************************)
C10_IdenticalCallsReturnSameMove ==
    \A m, n \in 1..Len(calls) :
        calls[m].args = calls[n].args => calls[m].move = calls[n].move

(***************************************************************************)
(* Calls on roots with a mate in one                                       *)
(***************************************************************************)

\* White to move: white king (2,1), black king (0,0) in the corner, a white
\* queen and a black knight; the queen mates on row 0 or beside the king
\* wherever it reaches such a square.
MateRoot(queen, knight) ==
    [board |-> BoardOf({ <<2, 1, "k", "white">>, <<0, 0, "k", "black">>,
                         <<queen.row, queen.col, "q", "white">>,
                         <<knight.row, knight.col, "n", "black">> }),
     color |-> "white",
     castlingRights |-> Rights(FALSE, FALSE, FALSE, FALSE),
     positionHistory |-> <<>>]

QueenSquares ==
    {Pos(r, 7) : r \in 1..7} \cup {Pos(1, c) : c \in 3..6}
        \cup {Pos(7, 6), Pos(6, 6), Pos(5, 6)}

KnightSquares == {Pos(4, 6), Pos(7, 5), Pos(5, 3), Pos(6, 4), Pos(6, 2)}

\* The roots of the family in which black, not to move, is not in check.
MateRoots ==
    {root \in {MateRoot(q, n) : q \in QueenSquares, n \in KnightSquares} :
        ~isKingInCheck(root.board, "black")}

\* A call without a time budget on a root of the family, after the module
\* is loaded.
MateSearch ==
    /\ calls = <<>>
    /\ \E root \in MateRoots, depth \in 1..MaxDepth :
          Call(root, depth, FALSE, 0)

SpecMate == SearchInit /\ [][MateSearch]_vars

\* The move checkmates: the opponent is left in check without a legal move.
IsCheckmating(args, move) ==
    LET child == ChildOf(args.board, args.color, args.castlingRights, move)
    IN  /\ isKingInCheck(child.board, Opponent(args.color))
        /\ Len(getValidMovesForColor(child.board, Opponent(args.color),
                                     child.rights)) = 0

\* The side to move has a checkmating move at the root of the call.
HasCheckmatingMove(call) ==
    \E i \in 1..Len(AllMovesOf(call)) :
        IsCheckmating(call.args, AllMovesOf(call)[i])

(***************************************************************************)
(* C11: on a root where the side to move has a checkmating move,           *)
(* myMinimaxMove called with depth >= 1 and without a time budget returns  *)
(* a checkmating move, also with an evaluation that leaves the detection   *)
(* of mate to the engine.                                                  *)
(***************************************************************************)
C11_MateInOneReturned ==
    \A n \in 1..Len(calls) :
        /\ ~calls[n].args.timed
        /\ calls[n].args.depth >= 1
        /\ HasCheckmatingMove(calls[n])
        => /\ calls[n].move # NoMove
           /\ IsCheckmating(calls[n].args, calls[n].move)

(***************************************************************************)
(* quiescence called on a node and a window                                *)
(***************************************************************************)

\* What myMinimaxMove's closure holds while a search function runs: the
\* root colour and the time budget.
ClosureOf(root, rootColor, timed, expireAt) ==
    [board |-> root.board, color |-> rootColor, depth |-> 1,
     timed |-> timed, expireAt |-> expireAt,
     castlingRights |-> root.castlingRights, age |-> 1]

\* The tables and the clock when the search function is entered.
EnteredWith(tt) ==
    [tt |-> tt, killers |-> <<>>, hist |-> <<>>, clock |-> 0,
     timeExpired |-> FALSE, best |-> NoMove]

\* The nodes quiescence is called on: two without a capture for the side
\* to move, two with the capture of a knight by the queen.
QuiescenceNodes ==
    {RootFork, RootBehind, MateRoot(Pos(1, 3), Pos(4, 6)),
     MateRoot(Pos(1, 7), Pos(6, 2))}

\* The window's bounds.
WindowBounds == {-Infinity, -60, -20, 0, 10, 20, 60, Infinity}

\* The time budget runs out at the time test number 1 .. MaxTests, or there
\* is none (0).
MaxTests == 3

\* The stand-pat value quiescence computes for a node.
StandPatOf(node, rootColor) ==
    IF node.color = rootColor THEN evaluateBoard(node.board, rootColor)
    ELSE -evaluateBoard(node.board, rootColor)

\* quiescence(board, sideToMove, alpha, beta, currentCastlingRights).
QuiescenceCall ==
    /\ searched = NotSearched
    /\ \E node \in QuiescenceNodes, rootColor \in {"white", "black"},
          alpha \in WindowBounds, beta \in WindowBounds, budget \in 0..MaxTests :
          /\ alpha < beta
          /\ searched' =
                [fn |-> "quiescence", node |-> node, rootColor |-> rootColor,
                 alpha |-> alpha, beta |-> beta, timed |-> budget > 0,
                 standPat |-> StandPatOf(node, rootColor),
                 score |-> quiescence(
                     ClosureOf(node, rootColor, budget > 0, budget - 1),
                     EnteredWith(EmptyTable), node.board, node.color, alpha,
                     beta, node.castlingRights).score]
    /\ UNCHANGED <<gameVars, hashVars, probe, transpositionTable, currentAge,
                   killerMoves, historyTable, calls>>

SpecQuiescence == SearchInit /\ [][QuiescenceCall]_vars

\* The captures among the moves of the node.
CapturesOf(node) ==
    SelectSeq(getValidMovesForColor(node.board, node.color,
                                    node.castlingRights),
              LAMBDA m : m.captured # Null)

(***************************************************************************)
(* C12: for every node and window, quiescence returns a value that is not  *)
(* below the node's stand-pat evaluation when no capture scores above it,  *)
(* as at a node that has no capture at all.                                *)
(***************************************************************************)
C12_QuiescenceNotBelowStandPat ==
    /\ searched.fn = "quiescence"
    /\ Len(CapturesOf(searched.node)) = 0
    => searched.score >= searched.standPat

(***************************************************************************)
(* Two searches started by one host                                        *)
(***************************************************************************)

\* The tables of a module instance that has just been loaded.
LoadedTables ==
    [transpositionTable |-> EmptyTable, currentAge |-> 0,
     killerMoves |-> <<>>, historyTable |-> <<>>]

\* The number of searches the host starts.
MaxSearches == 2

\* A search returns to the host: the call is recorded with the loader that
\* ran it and the tables its module instance held when it was entered.
Returned2(loader, args, entered, out, kept) ==
    /\ transpositionTable' = kept.transpositionTable
    /\ currentAge' = kept.currentAge
    /\ killerMoves' = kept.killerMoves
    /\ historyTable' = kept.historyTable
    /\ calls' = Append(calls, [args |-> args, move |-> out.move,
                                iterations |-> out.iterations])
    /\ searched' = [fn |-> loader, tables |-> entered]
    /\ UNCHANGED <<gameVars, hashVars, probe>>

\* asyncMinimaxMove(board, color, depth, evaluate, maxTime): myMinimaxMove
\* runs in the module instance of the caller, whose tables keep what it
\* wrote.
asyncMinimaxMove(args, out) ==
    Returned2("asyncMinimaxMove", args, Tables, out, out.tables)

\* runMinimaxInWorker: a new Worker loads the module, runs myMinimaxMove
\* once and is terminated; the caller's module instance is not touched.
runMinimaxInWorker(args, out) ==
    Returned2("runMinimaxInWorker", args, LoadedTables, out, Tables)

\* The host starts one more search, for either side, with either loader.
AsyncSearch ==
    /\ Len(calls) < MaxSearches
    /\ \E root \in SearchRoots, depth \in 1..MaxDepth :
          asyncMinimaxMove(ArgsOf(root, depth, FALSE, 0),
              myMinimaxMove(Tables, ArgsOf(root, depth, FALSE, 0)))

WorkerSearch ==
    /\ Len(calls) < MaxSearches
    /\ \E root \in SearchRoots, depth \in 1..MaxDepth :
          runMinimaxInWorker(ArgsOf(root, depth, FALSE, 0),
              myMinimaxMove(LoadedTables, ArgsOf(root, depth, FALSE, 0)))

HostNext == AsyncSearch \/ WorkerSearch

SpecHost == SearchInit /\ [][HostNext]_vars

CellString(cell) ==
    IF cell = Null THEN "."
    ELSE cell.type \o (IF cell.color = "white" THEN "w" ELSE "b")

RowString(row) ==
    CellString(row[0]) \o CellString(row[1]) \o CellString(row[2])
        \o CellString(row[3]) \o CellString(row[4]) \o CellString(row[5])
        \o CellString(row[6]) \o CellString(row[7])

boardToString(board) ==
    RowString(board[0]) \o "/" \o RowString(board[1]) \o "/"
        \o RowString(board[2]) \o "/" \o RowString(board[3]) \o "/"
        \o RowString(board[4]) \o "/" \o RowString(board[5]) \o "/"
        \o RowString(board[6]) \o "/" \o RowString(board[7])

\* makeMove of either host.
makeMove(host, state, from, to) ==
    IF host = "chess2" THEN makeMoveChess2(state, from, to)
    ELSE makeMoveChess(state, from, to)

\* The GameState makeMove returns, with isStalemate: the board strings of
\* the replayed moveHistory (replayed, the new move's included) that equal
\* the new board's are counted, and three make a stalemate.
WithStalemate(new, replayed) ==
    [board |-> new.board, currentPlayer |-> new.currentPlayer,
     castlingRights |-> new.castlingRights, isCheck |-> new.isCheck,
     isCheckmate |-> new.isCheckmate, lastMove |-> new.lastMove,
     isStalemate |->
        Occurrences(boardToString(new.board), replayed) >= 3]

\* Black to move with king and queen against the white king in the corner.
EndQueen ==
    [board |-> BoardOf({ <<0, 0, "k", "white">>, <<2, 1, "k", "black">>,
                         <<5, 2, "q", "black">> }),
     side |-> "black"]

\* White to move with king and rook against the black king on the edge.
EndRook ==
    [board |-> BoardOf({ <<5, 2, "k", "white">>, <<1, 1, "r", "white">>,
                         <<7, 2, "k", "black">> }),
     side |-> "white"]

EndPositions == {EndQueen, EndRook}

Hosts == {"chess2", "chess"}

\* A host's game after the move that left the position s: the moves before
\* it replay to boards with more pieces, which cannot come back.
EndInit ==
    /\ impl \in Hosts
    /\ \E s \in EndPositions :
        /\ gameState =
            [board |-> s.board, currentPlayer |-> s.side,
             castlingRights |-> Rights(FALSE, FALSE, FALSE, FALSE),
             isCheck |-> isKingInCheck(s.board, s.side),
             isCheckmate |-> FALSE, lastMove |-> NoMove,
             isStalemate |-> FALSE]
        /\ lineHistory = <<boardToString(s.board)>>
    /\ linePly = 0
    /\ IdleHash /\ IdleProbe /\ IdleSearch

\* The host adopts the GameState makeMove returned; lineHistory holds the
\* board strings of the replayed moveHistory.
AdoptMove(new) ==
    /\ gameState' =
          WithStalemate(new, Append(lineHistory, boardToString(new.board)))
    /\ lineHistory' = Append(lineHistory, boardToString(new.board))
    /\ linePly' = linePly + 1
    /\ UNCHANGED <<impl, hashVars, probe, searchVars>>

\* selectSquare twice: a piece of the player to move, then one of its
\* validMoves.
HostHumanMove ==
    /\ linePly < MaxPly
    /\ \E from \in OwnSquares :
          \E i \in 1..Len(selectSquareValidMoves(gameState, gameState.isCheck,
                                                 from)) :
             AdoptMove(makeMove(impl, gameState, from,
                 selectSquareValidMoves(gameState, gameState.isCheck,
                                        from)[i]))

\* The AI move trigger and makeAIMove: unless the game is flagged over, the
\* worker is asked for a move, and the move it answers with is applied.
HostAIMove ==
    /\ linePly < MaxPly
    /\ ~(gameState.isCheckmate \/ gameState.isStalemate)
    /\ \E i \in 1..Len(LineMoves) :
          AdoptMove(makeMove(impl, gameState, LineMoves[i].from,
                             LineMoves[i].to))

EndNext == HostHumanMove \/ HostAIMove

SpecEnd == EndInit /\ [][EndNext]_vars

(***************************************************************************)
(* C14: after every move a host's makeMove applied, when the new side to   *)
(* move has no legal move the GameState flags the end of the game:         *)
(* isCheckmate when that side is in check, isStalemate when it is not.     *)
(***************************************************************************)
C14_NoLegalMoveFlagsGameOver ==
    /\ impl \in Hosts
    /\ linePly > 0
    /\ Len(LineMoves) = 0
    => IF isKingInCheck(gameState.board, gameState.currentPlayer)
       THEN gameState.isCheckmate
       ELSE gameState.isStalemate

(***************************************************************************)
(* En passant                                                              *)
(***************************************************************************)

\* The en-passant square getValidMoves(board, from, piece, lastMove) adds
\* for a pawn (moveValidation of _chess2, whose source is not at hand;
\* written from the specification): lastMove is an enemy pawn's two-square
\* advance that ended beside the pawn, and the square is the one it passed.
getEnPassantMoves(board, from, piece, lastMove) ==
    IF /\ piece.type = "p"
       /\ lastMove # NoMove
       /\ lastMove.piece.type = "p"
       /\ lastMove.piece.color # piece.color
       /\ Abs(lastMove.to.row - lastMove.from.row) = 2
       /\ lastMove.to.row = from.row
       /\ Abs(lastMove.to.col - from.col) = 1
    THEN <<Pos(from.row + (IF piece.color = "white" THEN 1 ELSE -1),
               lastMove.to.col)>>
    ELSE <<>>

\* The en-passant moves one square contributes in the double loop of the
\* getValidMovesForColor that takes lastMove: filtered as the other moves,
\* captured is lastMove.piece, isEnPassant is set because the pawn changes
\* column onto an empty square.
SquareEnPassant(board, color, lastMove, row, col) ==
    IF board[row][col] = Null \/ board[row][col].color # color THEN <<>>
    ELSE LET legalMoves ==
                 SelectSeq(getEnPassantMoves(board, Pos(row, col),
                                             board[row][col], lastMove),
                           LAMBDA to : ~wouldMoveResultInCheck(
                               board, Pos(row, col), to, color))
         IN  [i \in 1..Len(legalMoves) |->
                [MkMove(Pos(row, col), legalMoves[i], board[row][col],
                        lastMove.piece, FALSE)
                    EXCEPT !.isEnPassant = At(board, legalMoves[i]) = Null]]

\* getValidMovesForColor(board, color, castlingRights, lastMove).
getValidMovesForColorAfter(board, color, castlingRights, lastMove) ==
    BoardMoves([k \in 0..63 |->
        SquareMoves(board, color, castlingRights, k \div 8, k % 8)
        \o SquareEnPassant(board, color, lastMove, k \div 8, k % 8)])

\* White to move, its pawn of column 2 unmoved between the black pawns of
\* columns 1 and 3 that stand on white's fourth row.
PassantBefore ==
    [board |-> BoardOf({ <<0, 6, "k", "white">>, <<1, 2, "p", "white">>,
                         <<7, 6, "k", "black">>, <<3, 1, "p", "black">>,
                         <<3, 3, "p", "black">> }),
     side |-> "white", lastMove |-> NoMove]

\* Black to move after a white king move; the white pawn of column 2 went
\* to the fourth row earlier in the game.
PassantMissed ==
    [board |-> BoardOf({ <<0, 6, "k", "white">>, <<3, 2, "p", "white">>,
                         <<7, 6, "k", "black">>, <<3, 1, "p", "black">>,
                         <<3, 3, "p", "black">> }),
     side |-> "black",
     lastMove |-> MkMove(Pos(0, 5), Pos(0, 6), Piece("k", "white"), Null,
                         FALSE)]

PassantStarts == {PassantBefore, PassantMissed}

\* The code that plays the line: the engine whose negamax hands the move
\* just made to the generator, or the _chess2 host.
PassantImpls == {"negamaxLastMove", "chess2"}

PassantInit ==
    /\ impl \in PassantImpls
    /\ \E s \in PassantStarts :
          gameState =
            [board |-> s.board, currentPlayer |-> s.side,
             castlingRights |-> Rights(FALSE, FALSE, FALSE, FALSE),
             isCheck |-> isKingInCheck(s.board, s.side),
             isCheckmate |-> FALSE, lastMove |-> s.lastMove]
    /\ lineHistory = <<>>
    /\ linePly = 0
    /\ IdleHash /\ IdleProbe /\ IdleSearch

\* One step down a search line of the engine: the root generates without
\* lastMove, negamax with the move that led to the node.
LastMoveApply ==
    /\ impl = "negamaxLastMove"
    /\ linePly < MaxPly
    /\ \E i \in 1..Len(getValidMovesForColorAfter(
                    gameState.board, gameState.currentPlayer,
                    gameState.castlingRights,
                    IF linePly = 0 THEN NoMove ELSE gameState.lastMove)) :
          gameState' =
            [gameState EXCEPT
                !.board = applyMove(gameState.board,
                    getValidMovesForColorAfter(
                        gameState.board, gameState.currentPlayer,
                        gameState.castlingRights,
                        IF linePly = 0 THEN NoMove ELSE gameState.lastMove)[i]),
                !.currentPlayer = Opponent(gameState.currentPlayer),
                !.lastMove =
                    getValidMovesForColorAfter(
                        gameState.board, gameState.currentPlayer,
                        gameState.castlingRights,
                        IF linePly = 0 THEN NoMove ELSE gameState.lastMove)[i]]
    /\ linePly' = linePly + 1
    /\ UNCHANGED <<impl, lineHistory, hashVars, probe, searchVars>>

\* selectSquare twice in the _chess2 host: the validMoves of the selected
\* piece are computed with the last move of moveHistory.
PassantHumanMove ==
    /\ impl = "chess2"
    /\ linePly < MaxPly
    /\ \E from \in OwnSquares :
          \E to \in
              {selectSquareValidMoves(gameState, gameState.isCheck, from)[i] :
                  i \in 1..Len(selectSquareValidMoves(gameState,
                                   gameState.isCheck, from))}
              \cup
              {m.to : m \in
                  {SquareEnPassant(gameState.board, gameState.currentPlayer,
                                   gameState.lastMove, from.row, from.col)[i] :
                      i \in 1..Len(SquareEnPassant(
                              gameState.board, gameState.currentPlayer,
                              gameState.lastMove, from.row, from.col))}} :
              Adopt(makeMoveChess2(gameState, from, to))

PassantNext == LastMoveApply \/ PassantHumanMove

SpecPassant == PassantInit /\ [][PassantNext]_vars

\* The move applied by the step is an en-passant capture.
EnPassantApplied ==
    /\ linePly' = linePly + 1
    /\ gameState'.lastMove.isEnPassant

\* The two boards differ on the three squares only.
SameBut(before, after, a, b, c) ==
    \A row \in Rows, col \in Cols :
        Pos(row, col) \in {a, b, c} \/ after[row][col] = before[row][col]

(***************************************************************************)
(* C15: an en-passant capture is applied only as the reply to an adjacent  *)
(* enemy pawn's two-square advance, and applying it (applyMove of the      *)
(* engine, makeMove of the host) empties the square of the passed pawn,    *)
(* on the capturing pawn's row in the destination column, and puts the     *)
(* capturing pawn on the empty destination square.                         *)
(***************************************************************************)
C15_EnPassantRemovesPassedPawn ==
    [][EnPassantApplied =>
        LET move == gameState'.lastMove
            passed == Pos(move.from.row, move.to.col)
        IN  /\ gameState.lastMove # NoMove
            /\ gameState.lastMove.piece = Piece("p", Opponent(move.piece.color))
            /\ Abs(gameState.lastMove.to.row - gameState.lastMove.from.row) = 2
            /\ gameState.lastMove.to = passed
            /\ Abs(move.from.col - move.to.col) = 1
            /\ At(gameState.board, move.to) = Null
            /\ At(gameState.board, passed) = gameState.lastMove.piece
            /\ At(gameState'.board, passed) = Null
            /\ At(gameState'.board, move.to) = move.piece
            /\ At(gameState'.board, move.from) = Null
            /\ SameBut(gameState.board, gameState'.board, move.from, move.to,
                       passed)]_vars

\* C15 witness: an en-passant capture has been applied, by the engine or by
\* the host, and the passed pawn is gone.
C15_Witness ==
    /\ impl \in PassantImpls
    /\ linePly = 2
    /\ gameState.lastMove.isEnPassant
    /\ At(gameState.board,
          Pos(gameState.lastMove.from.row, gameState.lastMove.to.col)) = Null

(***************************************************************************)
(* One pass of the move loops of searchRoot and negamax                    *)
(***************************************************************************)

\* Three queens against the bare king: 270 for white.
RootAhead ==
    [board |-> BoardOf({ <<0, 0, "k", "white">>, <<0, 3, "q", "white">>,
                         <<0, 5, "q", "white">>, <<0, 6, "q", "white">>,
                         <<7, 1, "k", "black">> }),
     castlingRights |-> Rights(FALSE, FALSE, FALSE, FALSE)]

\* Queen, rook, bishop and knight against the bare king: 200 for white.
RootTwoHundred ==
    [board |-> BoardOf({ <<0, 0, "k", "white">>, <<0, 3, "q", "white">>,
                         <<0, 5, "r", "white">>, <<0, 6, "n", "white">>,
                         <<0, 2, "b", "white">>, <<7, 1, "k", "black">> }),
     castlingRights |-> Rights(FALSE, FALSE, FALSE, FALSE)]

\* The knight against the pawn: 20 for white.
RootLevel ==
    [board |-> RootFork.board, castlingRights |-> RootFork.castlingRights]

LoopNodes == {RootAhead, RootTwoHundred, RootLevel}

\* The histories handed down with a move whose key is key, other being the
\* key of the node's first move.
HistoriesOf(key, other) ==
    {<<>>, <<key>>, <<key, key>>, <<key, other, key>>, <<other, other>>}

\* The call's arguments as the search functions hold them, with a time
\* budget that runs out at the time test number expireAt + 1.
LoopArgs(node, rootColor, expireAt) ==
    [board |-> node.board, color |-> rootColor, depth |-> 1, timed |-> TRUE,
     expireAt |-> expireAt, castlingRights |-> node.castlingRights,
     age |-> 1]

\* The loop's variables before the pass: nothing found yet.
LoopStart(alpha, st1) ==
    [alpha |-> alpha, bestScore |-> -Infinity, bestMoveLocal |-> NoMove,
     movesSearched |-> 0, st |-> st1, done |-> FALSE]

\* One pass of the loop of searchRoot(depth, history) on a move of the
\* root, its time test made (st1), bestScore and alpha at -Infinity.
RootPass(args, depth, history, move, st1, child) ==
    RootMove(args, [depth |-> depth, history |-> history, beta |-> Infinity],
        move,
        [alpha |-> -Infinity, bestScore |-> -Infinity, st |-> st1,
         done |-> FALSE],
        st1, child)

\* One pass of the loop of negamax(board, sideToMove, depth, -Infinity,
\* Infinity, rights, 1, true, history) on a move of the node, its time test
\* made (st1), bestScore at -Infinity.
NegamaxPass(args, node, sideToMove, depth, history, move, st1, child) ==
    NegamaxMove(args,
        [board |-> node.board, sideToMove |-> sideToMove, depth |-> depth,
         alphaOrig |-> -Infinity, alpha |-> -mateValue + 1,
         beta |-> mateValue - 2, rights |-> node.castlingRights, ply |-> 1,
         allowNull |-> TRUE, history |-> history,
         inCheck |-> isKingInCheck(node.board, sideToMove),
         hash |-> hashPosition(node.board, sideToMove, node.castlingRights)],
        move, LoopStart(-mateValue + 1, st1), st1, child)

\* What is kept of one pass of a move loop.
LoopPass(fn, node, sideToMove, rootColor, move, child, history, st1, acc) ==
    [fn |-> fn, board |-> node.board, sideToMove |-> sideToMove,
     rootColor |-> rootColor, move |-> move, child |-> child.board,
     key |-> child.hash, history |-> history,
     score |-> acc.bestScore, alpha |-> acc.alpha,
     before |-> st1, after |-> acc.st]

\* One pass of the loop of searchRoot(1, history) within the time budget.
RootLoopPass ==
    /\ searched = NotSearched
    /\ \E node \in LoopNodes, color \in {"white", "black"} :
          \E i \in 1..Len(getValidMovesForColor(node.board, color,
                                                 node.castlingRights)) :
              LET moves == getValidMovesForColor(node.board, color,
                                                 node.castlingRights)
                  child == ChildOf(node.board, color, node.castlingRights,
                                   moves[i])
                  other == ChildOf(node.board, color, node.castlingRights,
                                   moves[1]).hash
                  args == LoopArgs(node, color, MaxClock)
                  st1 == isTimeExpired(args, EnteredWith(EmptyTable))
              IN  \E history \in HistoriesOf(child.hash, other) :
                      searched' =
                        LoopPass("searchRoot", node, color, color, moves[i],
                            child, history, st1,
                            RootPass(args, 1, history, moves[i], st1, child))
    /\ UNCHANGED <<gameVars, hashVars, probe, transpositionTable, currentAge,
                   killerMoves, historyTable, calls>>

\* One pass of the loop of negamax at depth 1 within the time budget.
NegamaxLoopPass ==
    /\ searched = NotSearched
    /\ \E node \in LoopNodes, sideToMove \in {"white", "black"},
          rootColor \in {"white", "black"} :
          \E i \in 1..Len(getValidMovesForColor(node.board, sideToMove,
                                                 node.castlingRights)) :
              LET moves == getValidMovesForColor(node.board, sideToMove,
                                                 node.castlingRights)
                  child == ChildOf(node.board, sideToMove,
                                   node.castlingRights, moves[i])
                  other == ChildOf(node.board, sideToMove,
                                   node.castlingRights, moves[1]).hash
                  args == LoopArgs(node, rootColor, MaxClock)
                  st1 == isTimeExpired(args, EnteredWith(EmptyTable))
              IN  \E history \in HistoriesOf(child.hash, other) :
                      searched' =
                        LoopPass("negamax", node, sideToMove, rootColor,
                            moves[i], child, history, st1,
                            NegamaxPass(args, node, sideToMove, 1, history,
                                        moves[i], st1, child))
    /\ UNCHANGED <<gameVars, hashVars, probe, transpositionTable, currentAge,
                   killerMoves, historyTable, calls>>

LoopNext == RootLoopPass \/ NegamaxLoopPass

SpecLoop == SearchInit /\ [][LoopNext]_vars

\* The pass kept is of a move whose resulting key occurs twice or more in
\* the history handed down.
RepeatingPass ==
    /\ searched.fn \in {"searchRoot", "negamax"}
    /\ Occurrences(searched.key, searched.history) >= 2

(***************************************************************************)
(* C16: in searchRoot and in negamax, a move whose resulting position key  *)
(* already occurs twice in the history is not searched recursively (no     *)
(* time test is made, no table is written) and is scored, for the mover,   *)
(* -150 when the mover's static evaluation of the resulting board exceeds  *)
(* 200, 150 when it is below -200, and 0 otherwise.                        *)
(***************************************************************************)
C16_RepetitionGetsFixedScore ==
    RepeatingPass =>
        /\ searched.score =
              (IF evaluateBoard(searched.child, searched.sideToMove) > 200
               THEN -150
               ELSE IF evaluateBoard(searched.child, searched.sideToMove) < -200
               THEN 150
               ELSE 0)
        /\ searched.after.clock = searched.before.clock
        /\ searched.after.tt = searched.before.tt

\* C16 witness: negamax scores a repeating move of the side that is not the
\* root's and is far ahead at -150, without a search.
C16_Witness ==
    /\ RepeatingPass
    /\ searched.fn = "negamax"
    /\ searched.sideToMove # searched.rootColor
    /\ evaluateBoard(searched.child, searched.sideToMove) > 200
    /\ searched.score = -150
    /\ searched.after.clock = searched.before.clock

(***************************************************************************)
(* A pass of the move loops whose child search runs out of time            *)
(***************************************************************************)

\* One pass of the loop of searchRoot on a move of the root, with a time
\* budget that runs out at the time test number 2 .. MaxTests + 1: the
\* loop's own test is passed.
RootAbortPass ==
    /\ searched = NotSearched
    /\ \E node \in LoopNodes, color \in {"white", "black"},
          depth \in 1..MaxDepth, expireAt \in 1..MaxTests :
          \E i \in 1..Len(getValidMovesForColor(node.board, color,
                                                 node.castlingRights)) :
              LET move == getValidMovesForColor(node.board, color,
                                                node.castlingRights)[i]
                  child == ChildOf(node.board, color, node.castlingRights,
                                   move)
                  args == LoopArgs(node, color, expireAt)
                  st1 == isTimeExpired(args, EnteredWith(EmptyTable))
              IN  searched' =
                    LoopPass("searchRoot", node, color, color, move, child,
                        <<>>, st1,
                        RootPass(args, depth, <<>>, move, st1, child))
    /\ UNCHANGED <<gameVars, hashVars, probe, transpositionTable, currentAge,
                   killerMoves, historyTable, calls>>

\* The same for one pass of the loop of negamax.
NegamaxAbortPass ==
    /\ searched = NotSearched
    /\ \E node \in LoopNodes, sideToMove \in {"white", "black"},
          rootColor \in {"white", "black"}, depth \in 1..MaxDepth,
          expireAt \in 1..MaxTests :
          \E i \in 1..Len(getValidMovesForColor(node.board, sideToMove,
                                                 node.castlingRights)) :
              LET move == getValidMovesForColor(node.board, sideToMove,
                                                node.castlingRights)[i]
                  child == ChildOf(node.board, sideToMove,
                                   node.castlingRights, move)
                  args == LoopArgs(node, rootColor, expireAt)
                  st1 == isTimeExpired(args, EnteredWith(EmptyTable))
              IN  searched' =
                    LoopPass("negamax", node, sideToMove, rootColor, move,
                        child, <<>>, st1,
                        NegamaxPass(args, node, sideToMove, depth, <<>>,
                                    move, st1, child))
    /\ UNCHANGED <<gameVars, hashVars, probe, transpositionTable, currentAge,
                   killerMoves, historyTable, calls>>

AbortNext == RootAbortPass \/ NegamaxAbortPass

SpecAbort == SearchInit /\ [][AbortNext]_vars

\* The time ran out inside the search of the child: not before the pass,
\* and it has when the pass ends.
ChildAborted ==
    /\ searched.fn \in {"searchRoot", "negamax"}
    /\ ~searched.before.timeExpired
    /\ searched.after.timeExpired

(***************************************************************************)
(* C17: a child search cut short by the time budget leaves the loop's      *)
(* bookkeeping of its parent as it was: bestScore and alpha are not        *)
(* raised to the value it returned, the best move is not set to its move,  *)
(* and neither the killer moves nor the history table are written.         *)
(***************************************************************************)
C17_AbortedChildLeavesParent ==
    ChildAborted =>
        /\ searched.score = -Infinity
        /\ searched.alpha < -mateValue + 2
        /\ searched.after.best = searched.before.best
        /\ searched.after.killers = searched.before.killers
        /\ searched.after.hist = searched.before.hist

(***************************************************************************)
(* The time test of one call                                               *)
(***************************************************************************)

\* The body of isTimeExpired() without the flag: the clock alone answers.
TimeTestUnlatched(timeExpired, timed, maxTime, elapsed) ==
    timed /\ elapsed > maxTime

\* The body of isTimeExpired(): the answer, which is also the new value of
\* timeExpired. timed stands for maxTime !== undefined, elapsed for
\* Date.now() - startTime, a reading that may be smaller than the one
\* before when the system clock has been set back.
TimeTest(timeExpired, timed, maxTime, elapsed) ==
    IF timeExpired THEN TRUE
    ELSE timed /\ elapsed > maxTime

MaxTime == 1

MaxElapsed == 2

MaxAnswers == 3

\* myMinimaxMove is entered: timeExpired = false, no test made yet.
ClockStart ==
    /\ searched = NotSearched
    /\ \E timed \in BOOLEAN, maxTime \in 0..MaxTime :
          searched' = [fn |-> "isTimeExpired", timed |-> timed,
                       maxTime |-> maxTime, timeExpired |-> FALSE,
                       readings |-> <<>>, answers |-> <<>>]
    /\ UNCHANGED <<gameVars, hashVars, probe, transpositionTable, currentAge,
                   killerMoves, historyTable, calls>>

\* One more call of isTimeExpired() within the invocation.
ClockTest ==
    /\ searched.fn = "isTimeExpired"
    /\ Len(searched.answers) < MaxAnswers
    /\ \E elapsed \in 0..MaxElapsed :
          searched' =
            [searched EXCEPT
                !.timeExpired = TimeTest(searched.timeExpired, searched.timed,
                                         searched.maxTime, elapsed),
                !.readings = Append(@, elapsed),
                !.answers = Append(@,
                    TimeTest(searched.timeExpired, searched.timed,
                             searched.maxTime, elapsed))]
    /\ UNCHANGED <<gameVars, hashVars, probe, transpositionTable, currentAge,
                   killerMoves, historyTable, calls>>

\* The nodes of the family with a capture for white, the side to move.
CaptureNodes == {MateRoot(Pos(1, 3), Pos(4, 6)), MateRoot(Pos(1, 7), Pos(6, 2))}

\* negamax or quiescence entered after isTimeExpired() has returned true.
ExpiredEntry ==
    /\ searched = NotSearched
    /\ \E node \in LoopNodes \cup CaptureNodes,
          sideToMove \in {"white", "black"}, rootColor \in {"white", "black"},
          depth \in 0..MaxDepth, alpha \in WindowBounds,
          fn \in {"negamax", "quiescence"} :
          LET args == LoopArgs(node, rootColor, 0)
              st0 == isTimeExpired(args, EnteredWith(EmptyTable))
              out == IF fn = "negamax"
                     THEN negamax(args, st0, node.board, sideToMove, depth,
                                  alpha, Infinity, node.castlingRights, 1,
                                  TRUE, <<>>)
                     ELSE quiescence(args, st0, node.board, sideToMove, alpha,
                                     Infinity, node.castlingRights)
          IN  /\ alpha < Infinity
              /\ fn = "quiescence" => depth = 0
              /\ searched' = [fn |-> fn, board |-> node.board,
                              sideToMove |-> sideToMove, depth |-> depth,
                              alpha |-> alpha, score |-> out.score,
                              before |-> st0, after |-> out.st]
    /\ UNCHANGED <<gameVars, hashVars, probe, transpositionTable, currentAge,
                   killerMoves, historyTable, calls>>

\* The loop's variables of quiescence on entry to the loop.
QuiescenceStart(alpha, st) == [score |-> alpha, st |-> st, done |-> FALSE]

\* A move loop of negamax, searchRoot or quiescence run from its first move
\* on with a time budget that runs out at the time test number 1 ..
\* MaxTests + 1.
TimedLoop ==
    /\ searched = NotSearched
    /\ \E node \in {RootLevel} \cup CaptureNodes, rootColor \in {"white", "black"},
          depth \in 1..MaxDepth, expireAt \in 0..MaxTests,
          fn \in {"negamax", "searchRoot", "quiescence"} :
          LET args == LoopArgs(node, IF fn = "searchRoot" THEN "white"
                                     ELSE rootColor, expireAt)
              st == EnteredWith(EmptyTable)
              moves == getValidMovesForColor(node.board, "white",
                                             node.castlingRights)
              captures == SortCaptures(SelectSeq(moves,
                              LAMBDA m : m.captured # Null))
              start == IF fn = "negamax" THEN LoopStart(-mateValue + 1, st)
                       ELSE IF fn = "searchRoot"
                       THEN [alpha |-> -Infinity, bestScore |-> -Infinity,
                             st |-> st, done |-> FALSE]
                       ELSE QuiescenceStart(-Infinity, st)
          IN  /\ fn = "quiescence" => Len(captures) > 0 /\ depth = 1
              /\ fn = "searchRoot" => rootColor = "white"
              /\ searched' =
                    [fn |-> fn, loop |-> TRUE, board |-> node.board,
                     depth |-> depth, expireAt |-> expireAt, start |-> start,
                     end |->
                        IF fn = "negamax"
                        THEN NegamaxLoop(args,
                                [board |-> node.board, sideToMove |-> "white",
                                 depth |-> depth, alphaOrig |-> -Infinity,
                                 alpha |-> -mateValue + 1,
                                 beta |-> mateValue - 2,
                                 rights |-> node.castlingRights, ply |-> 1,
                                 allowNull |-> TRUE, history |-> <<>>,
                                 inCheck |-> FALSE,
                                 hash |-> hashPosition(node.board, "white",
                                                       node.castlingRights)],
                                moves, 1, Len(moves), start)
                        ELSE IF fn = "searchRoot"
                        THEN RootLoop(args,
                                [depth |-> depth, history |-> <<>>,
                                 beta |-> Infinity],
                                moves, 1, Len(moves), start)
                        ELSE QuiescenceLoop(args,
                                [board |-> node.board, sideToMove |-> "white",
                                 beta |-> Infinity,
                                 rights |-> node.castlingRights,
                                 standPat |-> StandPatOf(
                                     [node EXCEPT !.color = "white"],
                                     rootColor)],
                                captures, 1, Len(captures), start)]
    /\ UNCHANGED <<gameVars, hashVars, probe, transpositionTable, currentAge,
                   killerMoves, historyTable, calls>>

ClockNext == ClockStart \/ ClockTest \/ ExpiredEntry \/ TimedLoop

SpecClock == SearchInit /\ [][ClockNext]_vars

\* The record kept is of a move loop.
IsLoop == "loop" \in DOMAIN searched

(***************************************************************************)
(* C18: within one call, once isTimeExpired() has returned true it returns *)
(* true on every later call, whatever the clock reads; and it is asked at  *)
(* the entry of negamax and of quiescence, which after a true answer       *)
(* return 0 at once and leave the tables alone, and before each move of    *)
(* the move loops, which after a true answer are left without a further    *)
(* move looked at, so that negamax looks at no more moves than tests were  *)
(* answered false.                                                         *)
(***************************************************************************)
C18_TimeTestStickyAndConsulted ==
    /\ searched.fn = "isTimeExpired" =>
          \A i, j \in 1..Len(searched.answers) :
              i < j /\ searched.answers[i] => searched.answers[j]
    /\ searched.fn \in {"negamax", "quiescence"} /\ ~IsLoop =>
          /\ searched.before.timeExpired
          /\ searched.score = 0
          /\ searched.after = searched.before
    /\ IsLoop /\ searched.expireAt = 0 =>
          searched.end =
              [searched.start EXCEPT !.st.timeExpired = TRUE, !.done = TRUE]
    /\ IsLoop /\ searched.fn = "negamax" =>
          searched.end.movesSearched <= searched.end.st.clock
    /\ IsLoop => searched.end.st.clock <= searched.expireAt

\* C18 witness: a true answer is followed by a true answer although the
\* clock then reads a time within the budget.
C18_Witness ==
    /\ searched.fn = "isTimeExpired"
    /\ \E i, j \in 1..Len(searched.answers) :
          /\ i < j
          /\ searched.answers[i]
          /\ searched.answers[j]
          /\ searched.readings[j] <= searched.maxTime

(***************************************************************************)
(* A sequence of storeTT calls on a small table                            *)
(***************************************************************************)

\* The limit of the table in this specification, in place of MAX_TT_SIZE:
\* the code is the same for every limit, and a table of a million entries
\* is out of reach.
TableLimit == 10

\* currentAge does not go beyond MaxAge here.
MaxAge == 4

\* The key a position not yet in the table is stored under.
FreshKey(table) ==
    ToString(CHOOSE k \in 1..(Len(table.order) + 1) :
                /\ ToString(k) \notin DOMAIN table.entries
                /\ \A j \in 1..(k - 1) : ToString(j) \in DOMAIN table.entries)

\* storeTT is called, in the running search or in a later one (each call of
\* myMinimaxMove in between advances currentAge), for a position not yet
\* in the table or for the one stored first.
TableStore ==
    /\ Len(transpositionTable.order) <= TableLimit
    /\ \E later \in 0..2 :
          /\ currentAge + later <= MaxAge
          /\ currentAge' = currentAge + later
          /\ \E hash \in {FreshKey(transpositionTable)}
                         \cup {transpositionTable.order[i] :
                                 i \in 1..Min(1, Len(transpositionTable.order))} :
                transpositionTable' =
                    storeTTWithin(TableLimit, transpositionTable,
                                  currentAge + later, hash, 1, 0, "exact",
                                  NoMove)
    /\ UNCHANGED <<gameVars, hashVars, probe, killerMoves, historyTable,
                   calls, searched>>

SpecTable == SearchInit /\ [][TableStore]_vars

(***************************************************************************)
(* C19: after any sequence of storeTT calls the transposition table holds  *)
(* no more entries than its limit.                                         *)
(***************************************************************************)
C19_TableWithinLimit ==
    Cardinality(DOMAIN transpositionTable.entries) <= TableLimit

(***************************************************************************)
(* C20: at the start of every myMinimaxMove call, once currentAge is       *)
(* advanced and clearKillers has run, the killer moves and the history     *)
(* table are both empty: whatever calls came before, the next call would   *)
(* start its search on empty ordering tables.                              *)
(***************************************************************************)
C20_OrderingTablesEmptyAtStart ==
    Len(calls) < MaxCalls =>
        /\ clearKillers(killerMoves) = <<>>
        /\ \A at \in DOMAIN historyTable : historyTable[at] = 0

(***************************************************************************)
(* The paths of the search tree of negamax                                 *)
(***************************************************************************)

\* The depth negamax is entered with at the top of a path.
MaxNodeDepth == 7

\* The nodes at the top of a path: negamax as searchRoot calls it, for
\* either side of the knight-against-pawn board.
PathTop ==
    /\ searched = NotSearched
    /\ \E sideToMove \in {"white", "black"}, depth \in 0..MaxNodeDepth :
          searched' = [fn |-> "negamax", board |-> RootFork.board,
                       sideToMove |-> sideToMove,
                       rights |-> RootFork.castlingRights, depth |-> depth,
                       allowNull |-> TRUE, byNull |-> FALSE, moved |-> 0]
    /\ UNCHANGED <<gameVars, hashVars, probe, transpositionTable, currentAge,
                   killerMoves, historyTable, calls>>

\* The node is one at which negamax reaches its move generation and has a
\* move: not a leaf handed to quiescence.
PathInner ==
    /\ searched.fn = "negamax"
    /\ searched.depth > 0
    /\ Len(getValidMovesForColor(searched.board, searched.sideToMove,
                                 searched.rights)) > 0

\* negamax calls itself for the null move: same board, the other side,
\* depth - 1 - R, allowNull false.
PathNullMove ==
    /\ PathInner
    /\ NullMoveTried(searched.allowNull,
                     isKingInCheck(searched.board, searched.sideToMove),
                     searched.depth)
    /\ searched' = [searched EXCEPT
                        !.sideToMove = Opponent(searched.sideToMove),
                        !.depth = searched.depth - 1 - 2,
                        !.allowNull = FALSE,
                        !.byNull = TRUE]
    /\ UNCHANGED <<gameVars, hashVars, probe, transpositionTable, currentAge,
                   killerMoves, historyTable, calls>>

\* negamax calls itself for a move of its loop: depth - 1, allowNull true
\* (the reduced depth of a late move is not followed). At most MaxPly
\* moves are made along a path.
PathMove ==
    /\ PathInner
    /\ searched.moved < MaxPly
    /\ \E i \in 1..Len(getValidMovesForColor(searched.board,
                           searched.sideToMove, searched.rights)) :
          LET move == getValidMovesForColor(searched.board,
                          searched.sideToMove, searched.rights)[i]
          IN  searched' =
                [searched EXCEPT
                    !.board = applyMove(searched.board, move),
                    !.rights = updateCastlingRights(searched.rights, move,
                                                    searched.board),
                    !.sideToMove = Opponent(searched.sideToMove),
                    !.depth = searched.depth - 1,
                    !.allowNull = TRUE,
                    !.byNull = FALSE,
                    !.moved = searched.moved + 1]
    /\ UNCHANGED <<gameVars, hashVars, probe, transpositionTable, currentAge,
                   killerMoves, historyTable, calls>>

PathNext == PathTop \/ PathNullMove \/ PathMove

SpecPath == SearchInit /\ [][PathNext]_vars

\* The step is a null move.
NullMoveStep ==
    /\ searched.fn = "negamax"
    /\ searched'.fn = "negamax"
    /\ searched'.byNull
    /\ searched'.board = searched.board
    /\ searched'.depth = searched.depth - 3

(***************************************************************************)
(* C21: along every path of the search tree a null move is tried only at a *)
(* node whose side to move is not in check, and never at a node that was   *)
(* itself reached by a null move.                                          *)
(***************************************************************************)
C21_NullMoveNotInCheckNotTwice ==
    [][NullMoveStep =>
        /\ ~isKingInCheck(searched.board, searched.sideToMove)
        /\ ~searched.byNull]_vars

\* C21 witness: a node reached by a null move at which the remaining depth
\* would allow another one.
C21_Witness ==
    /\ searched.fn = "negamax"
    /\ searched.byNull
    /\ searched.depth >= 3
    /\ PathInner
    /\ ~isKingInCheck(searched.board, searched.sideToMove)

(***************************************************************************)
(* orderMoves on the moves of a node                                       *)
(***************************************************************************)

\* What historyTable holds for a from/to pair: nothing, the bonus of one
\* node at depth 2, or what the bonuses of many nodes of the searches so
\* far add up to (updateHistory only adds, and the table is never reset).
HistoryValues == {0, 4, 80001}

\* The class of a move in the order: the cached best move, a capture, a
\* promotion, a killer of the ply, any other quiet move.
MoveClass(killers, move, ply, ttBestMove) ==
    IF ttBestMove # NoMove /\ SameSquares(ttBestMove, move) THEN 1
    ELSE IF move.captured # Null THEN 2
    ELSE IF move.promotion # "none" THEN 3
    ELSE IF \E i \in 1..Len(killersAt(killers, ply)) :
                SameSquares(killersAt(killers, ply)[i], move) THEN 4
    ELSE 5

\* orderMoves(moves, ply, ttBestMove) on the moves of a node, with a killer
\* of the ply (one of the first two quiet moves) or none, a history count
\* for one of the first three quiet moves, and a cached best move or none.
OrderCall ==
    /\ searched = NotSearched
    /\ \E node \in {RootFork, RootBehind, MateRoot(Pos(1, 3), Pos(4, 6))} :
          \E moves \in {getValidMovesForColor(node.board, node.color,
                                              node.castlingRights)} :
              \E quiet \in {SelectSeq(moves, LAMBDA m : m.captured = Null)} :
                  \E ply \in 0..1, value \in HistoryValues,
                     k \in 0..Min(2, Len(quiet)), h \in 1..Min(3, Len(quiet)),
                     t \in 0..1 :
                      LET killers == IF k = 0 THEN <<>>
                                     ELSE storeKiller(<<>>, quiet[k], ply)
                          history ==
                              IF value = 0 THEN <<>>
                              ELSE (<<quiet[h].from.row, quiet[h].from.col,
                                      quiet[h].to.row, quiet[h].to.col>>
                                    :> value)
                          ttBestMove == IF t = 0 THEN NoMove
                                        ELSE moves[Len(moves)]
                      IN  searched' =
                            [fn |-> "orderMoves", killers |-> killers,
                             history |-> history, ply |-> ply,
                             ttBestMove |-> ttBestMove, moves |-> moves,
                             ordered |-> orderMoves(killers, history, moves,
                                                    ply, ttBestMove)]
    /\ UNCHANGED <<gameVars, hashVars, probe, transpositionTable, currentAge,
                   killerMoves, historyTable, calls>>

SpecOrder == SearchInit /\ [][OrderCall]_vars

(***************************************************************************)
(* C22: orderMoves places the cached best move first, then the captures,   *)
(* then the promotions, then the killers of the ply, then the other quiet  *)
(* moves: whatever the history table holds, no move of a later class is    *)
(* ordered ahead of a move of an earlier class.                            *)
(***************************************************************************)
C22_OrderFollowsClasses ==
    searched.fn = "orderMoves" =>
        \A i, j \in 1..Len(searched.ordered) :
            i < j =>
                MoveClass(searched.killers, searched.ordered[i], searched.ply,
                          searched.ttBestMove)
                <= MoveClass(searched.killers, searched.ordered[j],
                             searched.ply, searched.ttBestMove)

(***************************************************************************)
(* One iteration of the deepening loop: searchRoot without a time budget   *)
(***************************************************************************)

\* King and rook each; the rooks face each other on column 0 and the side
\* to move can take the other's rook.
RootRooks(king, rook, color) ==
    [board |-> BoardOf({ <<0, king, "k", "white">>, <<0, 0, "r", "white">>,
                         <<7, 7, "k", "black">>, <<rook, 0, "r", "black">> }),
     color |-> color,
     castlingRights |-> Rights(FALSE, FALSE, FALSE, FALSE),
     positionHistory |-> <<>>]

IterationRoots ==
    {RootRooks(king, rook, color) :
        king \in 3..7, rook \in 2..6, color \in {"white", "black"}}

\* The roots searched beyond depth 2.
DeepRoots == {RootRooks(7, 5, "white")}

MaxRootDepth == 4

\* The arguments as the search functions of a call on a loaded module hold
\* them.
IterationArgs(root, depth) ==
    [board |-> root.board, color |-> root.color, depth |-> depth,
     timed |-> FALSE, expireAt |-> 0,
     castlingRights |-> root.castlingRights, age |-> 1]

\* The iterations 1 .. depth of a call on a loaded module, up to the head
\* of the next: the tables are as a call to depth leaves them, and the
\* call's record holds bestMoveAtRoot.
IterationsBefore ==
    /\ calls = <<>>
    /\ searched = NotSearched
    /\ \E root \in IterationRoots, depth \in 1..(MaxRootDepth - 1) :
          /\ depth > 1 => root \in DeepRoots
          /\ Call(root, depth, FALSE, 0)

\* The tables and bestMoveAtRoot at the head of iteration depth.
IterationStart(root, depth) ==
    IF depth = 1
    THEN [tt |-> EmptyTable, killers |-> <<>>, hist |-> <<>>, clock |-> 0,
          timeExpired |-> FALSE,
          best |-> Fallback(getValidMovesForColor(root.board, root.color,
                                                  root.castlingRights))]
    ELSE [tt |-> transpositionTable, killers |-> killerMoves,
          hist |-> historyTable, clock |-> 0, timeExpired |-> FALSE,
          best |-> calls[1].move]

\* searchRoot(depth, baseHistory) in iteration depth of the call, without a
\* time budget: the loop over all ordered moves but the last (all), then
\* the last move unless the loop has been left.
RootIteration ==
    /\ searched = NotSearched
    /\ \E root \in IterationRoots, depth \in 1..MaxRootDepth :
          /\ \/ depth = 1 /\ calls = <<>>
             \/ /\ depth > 1
                /\ Len(calls) = 1
                /\ calls[1].args = ArgsOf(root, depth - 1, FALSE, 0)
                /\ Len(calls[1].iterations) = depth - 1
          /\ \E st \in {IterationStart(root, depth)} :
                \E ordered \in
                    {orderMoves(st.killers, st.hist,
                        getValidMovesForColor(root.board, root.color,
                                              root.castlingRights), 0,
                        ttGet(st.tt, hashPosition(root.board, root.color,
                                         root.castlingRights)).bestMove)} :
                    LET args == IterationArgs(root, depth)
                        narrowed == depth > 3 /\ st.best # NoMove
                        previousScore == evaluateBoard(root.board, root.color)
                        loop == [depth |-> depth,
                                 history |-> <<hashPosition(root.board,
                                     root.color, root.castlingRights)>>,
                                 beta |-> IF narrowed THEN previousScore + 50
                                          ELSE Infinity]
                        start == [alpha |-> IF narrowed THEN previousScore - 50
                                            ELSE -Infinity,
                                  bestScore |-> -Infinity, st |-> st,
                                  done |-> FALSE]
                    IN  /\ Len(ordered) >= 2
                        /\ \E all \in {RootLoop(args, loop, ordered, 1,
                                                Len(ordered) - 1, start)} :
                              \E end \in {RootRest(args, loop, ordered,
                                              Len(ordered), Len(ordered), all)} :
                                  searched' =
                                    [fn |-> "searchRoot", depth |-> depth,
                                     board |-> root.board,
                                     color |-> root.color,
                                     moves |-> ordered,
                                     window |-> <<start.alpha, loop.beta>>,
                                     left |-> all.done,
                                     bestScore |-> end.bestScore,
                                     best |-> end.st.best,
                                     expired |-> end.st.timeExpired]
    /\ UNCHANGED <<gameVars, hashVars, probe, transpositionTable, currentAge,
                   killerMoves, historyTable, calls>>

RootNext == IterationsBefore \/ RootIteration

SpecRoot == SearchInit /\ [][RootNext]_vars

(***************************************************************************)
(* C23: when an iteration completes without time expiry, searchRoot has    *)
(* scored every legal root move: its loop is not left before the last      *)
(* move, so none is skipped by a window cutoff, and bestMoveAtRoot is one  *)
(* of the moves.                                                           *)
(***************************************************************************)
C23_RootScoresEveryMove ==
    searched.fn = "searchRoot" /\ ~searched.expired =>
        /\ ~searched.left
        /\ InSeq(searched.best, searched.moves)

(***************************************************************************)
(* negamax of negamaxAttempt3.ts at a node one ply above the leaves        *)
(*                                                                         *)
(* The searches of the children at depth 0 take the steps of the negamax   *)
(* above: the time test, mate-distance pruning, the table lookup, and      *)
(* quiescence, whose stand-pat value evaluate(board, sideToMove) is the    *)
(* sign * evaluate(board, rootColor) of the engine above for the material  *)
(* evaluator.                                                              *)
(***************************************************************************)

\* The search of a child with the window (alpha, beta), depth plies deep.
Attempt3Child(args, st, node, child, depth, alpha, beta) ==
    negamax(args, st, child.board, Opponent(node.sideToMove), depth, alpha,
            beta, child.rights, node.ply + 1, TRUE, <<>>)

\* The loop body after the move is scored, with the searches made for the
\* move kept in passes.
Attempt3Update(node, move, acc, searches, score, st) ==
    NegamaxUpdate(node, move, acc, score, st)
    @@ [passes |-> Append(acc.passes,
            [move |-> move, alpha |-> acc.alpha, searches |-> searches,
             score |-> score])]

\* The loop body: the time test; the first move is searched with the full
\* window, a later move with the null window (-alpha - 1, -alpha) at the
\* reduced depth, and again with the full window when it was reduced and
\* scored above alpha.
Attempt3Move(args, node, move, acc, st1, child) ==
    LET reduction == IF /\ acc.movesSearched >= 4
                        /\ node.depth >= 3
                        /\ ~node.inCheck
                        /\ move.captured = Null
                     THEN 1 ELSE 0
        full == Attempt3Child(args, st1, node, child, node.depth - 1,
                              -node.beta, -acc.alpha)
        narrow == Attempt3Child(args, st1, node, child,
                                node.depth - 1 - reduction,
                                -acc.alpha - 1, -acc.alpha)
        again == Attempt3Child(args, narrow.st, node, child, node.depth - 1,
                               -node.beta, -acc.alpha)
    IN  CASE st1.timeExpired -> [acc EXCEPT !.st = st1, !.done = TRUE]
          [] /\ ~st1.timeExpired
             /\ acc.movesSearched = 0 ->
                Attempt3Update(node, move, acc,
                    << <<-node.beta, -acc.alpha>> >>, -full.score, full.st)
          [] /\ ~st1.timeExpired
             /\ acc.movesSearched # 0
             /\ -narrow.score > acc.alpha
             /\ reduction > 0 ->
                Attempt3Update(node, move, acc,
                    << <<-acc.alpha - 1, -acc.alpha>>,
                       <<-node.beta, -acc.alpha>> >>,
                    -again.score, again.st)
          [] OTHER ->
                Attempt3Update(node, move, acc,
                    << <<-acc.alpha - 1, -acc.alpha>> >>,
                    -narrow.score, narrow.st)

RECURSIVE Attempt3Loop(_, _, _, _, _)
\* The for loop from move number i on.
Attempt3Loop(args, node, moves, i, acc) ==
    IF i > Len(moves) \/ acc.done THEN acc
    ELSE Attempt3Loop(args, node, moves, i + 1,
            Attempt3Move(args, node, moves[i], acc,
                isTimeExpired(args, acc.st),
                ChildOf(node.board, node.sideToMove, node.rights, moves[i])))

\* The flag the node is stored with.
Attempt3Flag(node, bestScore) ==
    IF bestScore <= node.alphaOrig THEN "alpha"
    ELSE IF bestScore >= node.beta THEN "beta"
    ELSE "exact"

\* The nodes: the queen-and-knight family, the queen not attacked by the
\* black king.
Attempt3Nodes ==
    {root \in MateRoots :
        \A r \in 0..1, c \in 0..1 : At(root.board, Pos(r, c)).type # "q"}

\* negamax(board, sideToMove, 1, -Infinity, Infinity, rights, 1, true) of
\* negamaxAttempt3.ts without a time budget on empty tables, from the
\* ordering of the moves on.
Attempt3Call ==
    /\ searched = NotSearched
    /\ \E root \in Attempt3Nodes, sideToMove \in {"white", "black"} :
          \E moves \in {getValidMovesForColor(root.board, sideToMove,
                                              root.castlingRights)} :
              LET args == IterationArgs([root EXCEPT !.color = sideToMove], 1)
                  st == EnteredWith(EmptyTable)
                  node == [board |-> root.board, sideToMove |-> sideToMove,
                           depth |-> 1, alphaOrig |-> -Infinity,
                           alpha |-> -mateValue + 1, beta |-> mateValue - 2,
                           rights |-> root.castlingRights, ply |-> 1,
                           allowNull |-> TRUE, history |-> <<>>,
                           inCheck |-> isKingInCheck(root.board, sideToMove),
                           hash |-> hashPosition(root.board, sideToMove,
                                                 root.castlingRights)]
              IN  /\ Len(moves) > 0
                  /\ \E loop \in
                        {Attempt3Loop(args, node,
                            orderMoves(st.killers, st.hist, moves, 1, NoMove),
                            1,
                            LoopStart(node.alpha, st) @@
                            [passes |-> <<>>])} :
                        searched' =
                            [fn |-> "negamaxAttempt3", board |-> root.board,
                             sideToMove |-> sideToMove,
                             passes |-> loop.passes,
                             bestScore |-> loop.bestScore,
                             flag |-> Attempt3Flag(node, loop.bestScore)]
    /\ UNCHANGED <<gameVars, hashVars, probe, transpositionTable, currentAge,
                   killerMoves, historyTable, calls>>

SpecAttempt3 == SearchInit /\ [][Attempt3Call]_vars

(***************************************************************************)
(* C24: in the negamax of negamaxAttempt3.ts, whenever the null-window     *)
(* search of a later move returns a score above alpha, the move is         *)
(* searched again with the full window (-beta, -alpha) before its score    *)
(* becomes bestScore or is stored with the flag exact.                     *)
(***************************************************************************)
C24_NullWindowScoreResearched ==
    searched.fn = "negamaxAttempt3" =>
        \A i \in 2..Len(searched.passes) :
            searched.passes[i].score > searched.passes[i].alpha =>
                Len(searched.passes[i].searches) = 2

(***************************************************************************)
(* The positionHistory makeAIMove sends, and the engine's test on it       *)
(***************************************************************************)

MaxGamePly == 7

\* makeAIMove, the body of the loop over moveHistory up to its push: the
\* move replayed on tempBoard.
ReplayMove(tempBoard, move) ==
    LET piece == At(tempBoard, move.from)
        moved == SetSquare(
                    SetSquare(tempBoard, move.to,
                        IF move.promotion # "none"
                        THEN Piece(move.promotion, piece.color) ELSE piece),
                    move.from, Null)
        castled == IF move.isCastling
                   THEN IF move.to.col = 5
                        THEN MoveRook(moved, move.from.row, 7, 4)
                        ELSE IF move.to.col = 1
                             THEN MoveRook(moved, move.from.row, 0, 2)
                             ELSE moved
                   ELSE moved
    IN  IF move.isEnPassant
        THEN SetSquare(castled, Pos(move.from.row, move.to.col), Null)
        ELSE castled

RECURSIVE ReplayFrom(_, _, _, _)
\* makeAIMove, the loop over moveHistory from move number i on: a move
\* whose from square is empty on tempBoard is skipped.
ReplayFrom(tempBoard, moveHistory, i, positionHistory) ==
    IF i > Len(moveHistory) THEN positionHistory
    ELSE IF At(tempBoard, moveHistory[i].from) = Null
         THEN ReplayFrom(tempBoard, moveHistory, i + 1, positionHistory)
         ELSE ReplayFrom(ReplayMove(tempBoard, moveHistory[i]), moveHistory,
                         i + 1,
                         Append(positionHistory,
                            boardToString(
                                ReplayMove(tempBoard, moveHistory[i]))))

\* makeAIMove: the positionHistory of the request.
positionHistoryOf(moveHistory) ==
    ReplayFrom(createInitialBoard, moveHistory, 1,
               <<boardToString(createInitialBoard)>>)

\* myMinimaxMove: baseHistory.
baseHistoryOf(positionHistory, board, color, castlingRights) ==
    Append(positionHistory, hashPosition(board, color, castlingRights))

\* The game of the _chess2 host from the initial board; lineHistory holds
\* the positions the game went through, as the keys hashPosition gives
\* them.
KeysInit ==
    /\ impl = "chess2"
    /\ gameState =
          [board |-> createInitialBoard, currentPlayer |-> "white",
           castlingRights |-> AllRights, isCheck |-> FALSE,
           isCheckmate |-> FALSE, lastMove |-> NoMove, moveHistory |-> <<>>]
    /\ lineHistory = <<hashPosition(createInitialBoard, "white", AllRights)>>
    /\ linePly = 0
    /\ IdleHash /\ IdleProbe /\ IdleSearch

\* The knights that start on column 1, and the squares they move between.
ShuffleSquares ==
    {Pos(0, 1), Pos(2, 0), Pos(2, 2), Pos(7, 1), Pos(5, 0), Pos(5, 2)}

\* selectSquare twice, on a knight of the player to move and one of its
\* validMoves: makeMove, which appends the move to moveHistory.
KeysHumanMove ==
    /\ linePly < MaxGamePly
    /\ \E from \in OwnSquares \cap ShuffleSquares :
        \E moves \in {selectSquareValidMoves(gameState, gameState.isCheck,
                                             from)} :
          \E i \in 1..Len(moves) :
            \E new \in {makeMoveChess2(gameState, from, moves[i])} :
               /\ moves[i] \in ShuffleSquares
               /\ gameState' =
                     [x \in DOMAIN gameState |->
                         IF x = "moveHistory"
                         THEN Append(gameState.moveHistory, new.lastMove)
                         ELSE new[x]]
               /\ lineHistory' =
                     Append(lineHistory,
                            hashPosition(new.board, new.currentPlayer,
                                         new.castlingRights))
    /\ linePly' = linePly + 1
    /\ searched' = NotSearched
    /\ UNCHANGED <<impl, hashVars, probe, transpositionTable, currentAge,
                   killerMoves, historyTable, calls>>

\* makeAIMove and the root loop of the engine on its request: the key of
\* the position a root move of a knight leads to is tested against
\* baseHistory.
KeysAIRequest ==
    /\ searched = NotSearched
    /\ \E moves \in {getValidMovesForColor(gameState.board,
                                           gameState.currentPlayer,
                                           gameState.castlingRights)} :
        \E i \in 1..Len(moves) :
          \E child \in {ChildOf(gameState.board, gameState.currentPlayer,
                                gameState.castlingRights, moves[i])} :
            \E history \in {baseHistoryOf(
                                positionHistoryOf(gameState.moveHistory),
                                gameState.board, gameState.currentPlayer,
                                gameState.castlingRights)} :
               /\ moves[i].piece.type = "n"
               /\ searched' =
                     [fn |-> "isThirdRepetition", move |-> moves[i],
                      sent |-> positionHistoryOf(gameState.moveHistory),
                      key |-> child.hash, history |-> history,
                      result |-> isThirdRepetition(child.hash, history)]
    /\ UNCHANGED <<gameVars, hashVars, probe, transpositionTable, currentAge,
                   killerMoves, historyTable, calls>>

KeysNext == KeysHumanMove \/ KeysAIRequest

SpecKeys == KeysInit /\ [][KeysNext]_vars

(***************************************************************************)
(* C25: every key of the positionHistory the host sends is the key         *)
(* hashPosition gives for the same position of the game, so a root move    *)
(* that recreates a position the game has been in twice is recognised by   *)
(* isThirdRepetition.                                                      *)
(***************************************************************************)
C25_HostKeysAreEngineKeys ==
    searched.fn = "isThirdRepetition" =>
        /\ \A i \in 1..Len(searched.sent) :
              i <= Len(lineHistory) /\ searched.sent[i] = lineHistory[i]
        /\ Occurrences(searched.key, lineHistory) >= 2 => searched.result

\* C25, the repetition alone: a root move that recreates a position the
\* game has been in twice is recognised by isThirdRepetition.
C25_RepetitionRecognised ==
    searched.fn = "isThirdRepetition" =>
        (Occurrences(searched.key, lineHistory) >= 2 => searched.result)

(***************************************************************************)
(* The _chess2 host's AI move trigger, makeAIMove and resetGame            *)
(***************************************************************************)

MaxInFlight == 2

MaxAsyncPly == 3

\* options.whitePlayer and options.blackPlayer.
PlayerTypes ==
    { [white |-> "ai", black |-> "human"], [white |-> "human", black |-> "ai"],
      [white |-> "ai", black |-> "ai"] }

\* The AI move trigger, run by the render that follows a change of the
\* GameState: the timer of the render before is cleared, and a timer is
\* set when the player to move is an AI and the game is not over. The
\* timer calls the makeAIMove of its own render, so its board, player and
\* castling rights are those of the GameState.
TimerAfter(state, players) ==
    /\ players[state.currentPlayer] = "ai"
    /\ ~(state.isCheckmate \/ state.isStalemate)

\* The GameState resetGame sets.
ResetState ==
    [board |-> createInitialBoard, currentPlayer |-> "white",
     castlingRights |-> AllRights, isCheck |-> FALSE, isCheckmate |-> FALSE,
     isStalemate |-> FALSE, lastMove |-> NoMove]

\* gameState holds the GameState, the options (players) and the pending
\* timer of the trigger; calls holds the searches in flight, each with the
\* board, color and castlingRights of its request.
AsyncInit ==
    /\ impl = "chess2"
    /\ \E players \in PlayerTypes :
          gameState = ResetState
                      @@ [players |-> players,
                          timer |-> TimerAfter(ResetState, players)]
    /\ lineHistory = <<boardToString(createInitialBoard)>>
    /\ linePly = 0
    /\ IdleHash /\ IdleProbe /\ IdleSearch

\* The GameState a setGameState callback returned is adopted, and the
\* trigger runs.
AsyncAdopt(new, replayed) ==
    /\ gameState' =
          WithStalemate(new, replayed)
          @@ [players |-> gameState.players,
              timer |-> TimerAfter(WithStalemate(new, replayed),
                                   gameState.players)]
    /\ lineHistory' = replayed

\* selectSquare twice by a human player on their turn: a knight that started on column 1
\* and one of its validMoves.
AsyncHumanMove ==
    /\ linePly < MaxAsyncPly
    /\ gameState.players[gameState.currentPlayer] = "human"
    /\ \E from \in OwnSquares \cap ShuffleSquares :
        \E moves \in {selectSquareValidMoves(gameState, gameState.isCheck,
                                             from)} :
          \E i \in 1..Len(moves) :
            \E new \in {makeMoveChess2(gameState, from, moves[i])} :
               /\ moves[i] \in ShuffleSquares
               /\ AsyncAdopt(new,
                     Append(lineHistory, boardToString(new.board)))
    /\ linePly' = linePly + 1
    /\ UNCHANGED <<impl, hashVars, probe, searchVars>>

\* The timer fires: makeAIMove posts the request of its render to a new
\* worker.
AsyncTimerFires ==
    /\ gameState.timer
    /\ Len(calls) < MaxInFlight
    /\ gameState' = [gameState EXCEPT !.timer = FALSE]
    /\ calls' = Append(calls,
                    [board |-> gameState.board,
                     color |-> gameState.currentPlayer,
                     castlingRights |-> gameState.castlingRights])
    /\ UNCHANGED <<impl, lineHistory, linePly, hashVars, probe,
                   transpositionTable, currentAge, killerMoves, historyTable,
                   searched>>

\* A worker answers with a move of its request's position, and the
\* setGameState callback of makeAIMove runs on the GameState of the moment:
\* it returns it when its player to move is not the request's, and
\* makeMove's result otherwise.
AsyncResponse ==
    \E k \in 1..Len(calls) :
      \E moves \in {getValidMovesForColor(calls[k].board, calls[k].color,
                                          calls[k].castlingRights)} :
        \E i \in 1..Len(moves) :
          \E new \in {makeMoveChess2(gameState, moves[i].from, moves[i].to)} :
            LET skipped == gameState.currentPlayer # calls[k].color
                applied == ~skipped /\ At(gameState.board, moves[i].from) # Null
            IN  /\ moves[i].from \in ShuffleSquares
                /\ moves[i].to \in ShuffleSquares
                /\ linePly < MaxAsyncPly
                /\ calls' = [j \in 1..Len(calls) - 1 |->
                                IF j < k THEN calls[j] ELSE calls[j + 1]]
                /\ searched' =
                      [fn |-> "makeAIMove", request |-> calls[k],
                       move |-> moves[i], applied |-> applied,
                       current |->
                          [board |-> gameState.board,
                           color |-> gameState.currentPlayer,
                           castlingRights |-> gameState.castlingRights]]
                /\ IF applied
                   THEN /\ AsyncAdopt(new,
                              Append(lineHistory, boardToString(new.board)))
                        /\ linePly' = linePly + 1
                   ELSE UNCHANGED <<gameState, lineHistory, linePly>>
                /\ UNCHANGED <<impl, hashVars, probe, transpositionTable,
                               currentAge, killerMoves, historyTable>>

\* resetGame.
AsyncReset ==
    /\ linePly > 0
    /\ gameState' =
          ResetState @@ [players |-> gameState.players,
                         timer |-> TimerAfter(ResetState, gameState.players)]
    /\ lineHistory' = <<boardToString(createInitialBoard)>>
    /\ linePly' = 0
    /\ UNCHANGED <<impl, hashVars, probe, searchVars>>

AsyncNext ==
    AsyncHumanMove \/ AsyncTimerFires \/ AsyncResponse \/ AsyncReset

SpecAsync == AsyncInit /\ [][AsyncNext]_vars

(***************************************************************************)
(* C26: every AI move the host applies was computed by a search started    *)
(* from the board, side to move and castling rights it is applied to: in   *)
(* no interleaving of timers, worker responses, human moves and resets is  *)
(* the response of an earlier or duplicate search applied to another       *)
(* position.                                                               *)
(***************************************************************************)
C26_ResponseAppliedToItsPosition ==
    (searched.fn = "makeAIMove" /\ searched.applied) =>
        searched.request = searched.current

(***************************************************************************)
(* updateCastlingRights of the engine and the rights of the host's         *)
(* makeMove                                                                *)
(***************************************************************************)

\* Kings and rooks on their initial squares with all castling rights, and
\* at most one pawn a side in front of a rook.
CornerPawns(color) ==
    LET row == IF color = "white" THEN 1 ELSE 6
    IN  { {}, {<<row, 0, "p", color>>}, {<<row, 7, "p", color>>} }

CornerBoards ==
    { BoardOf({ <<0, 3, "k", "white">>, <<0, 0, "r", "white">>,
                <<0, 7, "r", "white">>, <<7, 3, "k", "black">>,
                <<7, 0, "r", "black">>, <<7, 7, "r", "black">> }
              \cup wp \cup bp) :
        wp \in CornerPawns("white"), bp \in CornerPawns("black") }

\* A move the engine generates is applied by the engine (applyMove and
\* updateCastlingRights, as in the loops of searchRoot and negamax) and by
\* the host (makeMove with the move's from and to).
RightsCall ==
    /\ searched = NotSearched
    /\ \E board \in CornerBoards, color \in {"white", "black"} :
        \E moves \in {getValidMovesForColor(board, color, AllRights)} :
          \E i \in 1..Len(moves) :
             searched' =
                [fn |-> "updateCastlingRights", board |-> board,
                 color |-> color, move |-> moves[i],
                 engine |-> ChildOf(board, color, AllRights, moves[i]).rights,
                 host |-> makeMoveChess2(
                             [board |-> board, currentPlayer |-> color,
                              castlingRights |-> AllRights, isCheck |-> FALSE,
                              isCheckmate |-> FALSE, lastMove |-> NoMove],
                             moves[i].from, moves[i].to).castlingRights]
    /\ UNCHANGED <<gameVars, hashVars, probe, transpositionTable, currentAge,
                   killerMoves, historyTable, calls>>

SpecRights == SearchInit /\ [][RightsCall]_vars

(***************************************************************************)
(* C27: for every position and every move, the castling rights the         *)
(* engine's updateCastlingRights computes are the castling rights the      *)
(* host's makeMove computes for the same move.                             *)
(***************************************************************************)
C27_EngineRightsAreHostRights ==
    searched.fn = "updateCastlingRights" => searched.engine = searched.host

(***************************************************************************)
(* The recursive calls of negamax and quiescence                           *)
(***************************************************************************)

\* The pieces on a board.
PieceCount(board) ==
    Cardinality({pos \in {Pos(r, c) : r \in Rows, c \in Cols} :
                    At(board, pos) # Null})

\* The boards the calls start on.
CallTops == {RootFork, MateRoot(Pos(1, 3), Pos(4, 6))}

\* The call entered, with the frame of its caller: the function, its
\* depth and the pieces on its board.
CalledFrom(callee) ==
    [callee EXCEPT !.caller = [fn |-> searched.fn, depth |-> searched.depth,
                               pieces |-> PieceCount(searched.board)]]

\* searchRoot calls negamax: the position a root move led to, depth - 1.
CallsTop ==
    /\ searched = NotSearched
    /\ \E top \in CallTops, sideToMove \in {"white", "black"},
          depth \in 1..(MaxNodeDepth + 1) :
          searched' = [fn |-> "negamax", board |-> top.board,
                       sideToMove |-> sideToMove,
                       rights |-> top.castlingRights,
                       depth |-> depth - 1, allowNull |-> TRUE,
                       by |-> "searchRoot", moved |-> 0,
                       caller |-> [fn |-> "searchRoot", depth |-> depth,
                                   pieces |-> PieceCount(top.board)]]
    /\ UNCHANGED <<gameVars, hashVars, probe, transpositionTable, currentAge,
                   killerMoves, historyTable, calls>>

\* negamax hands a node of depth <= 0 to quiescence.
CallsLeaf ==
    /\ searched.fn = "negamax"
    /\ searched.depth <= 0
    /\ searched' = CalledFrom([searched EXCEPT !.fn = "quiescence",
                                               !.by = "leaf"])
    /\ UNCHANGED <<gameVars, hashVars, probe, transpositionTable, currentAge,
                   killerMoves, historyTable, calls>>

\* negamax calls itself for the null move.
CallsNull ==
    /\ PathInner
    /\ NullMoveTried(searched.allowNull,
                     isKingInCheck(searched.board, searched.sideToMove),
                     searched.depth)
    /\ searched' =
          CalledFrom([searched EXCEPT
                        !.sideToMove = Opponent(searched.sideToMove),
                        !.depth = NullDepth(searched.depth),
                        !.allowNull = FALSE,
                        !.by = "null"])
    /\ UNCHANGED <<gameVars, hashVars, probe, transpositionTable, currentAge,
                   killerMoves, historyTable, calls>>

\* negamax calls itself for a move of its loop, the move number i of the
\* ordered moves after movesSearched others: with depth - 1 - reduction,
\* and, for a reduced move, again with depth - 1. At most MaxPly moves are
\* made along a path.
CallsMove ==
    /\ PathInner
    /\ searched.moved < MaxPly
    /\ \E moves \in {getValidMovesForColor(searched.board,
                        searched.sideToMove, searched.rights)} :
        \E i \in 1..Len(moves), movesSearched \in {0, 4},
           again \in BOOLEAN :
          LET move == moves[i]
              late == Reduction(
                          [depth |-> searched.depth,
                           inCheck |-> isKingInCheck(searched.board,
                                                     searched.sideToMove)],
                          move, movesSearched) > 0
              reduction == IF late /\ ~again THEN 1 ELSE 0
          IN  /\ movesSearched < Len(moves)
              /\ again => late
              /\ searched' =
                    CalledFrom([searched EXCEPT
                        !.board = applyMove(searched.board, move),
                        !.rights = updateCastlingRights(searched.rights, move,
                                                        searched.board),
                        !.sideToMove = Opponent(searched.sideToMove),
                        !.depth = ChildDepth(searched.depth, reduction),
                        !.allowNull = TRUE,
                        !.by = IF again THEN "research"
                               ELSE IF late THEN "reduced" ELSE "move",
                        !.moved = searched.moved + 1])
    /\ UNCHANGED <<gameVars, hashVars, probe, transpositionTable, currentAge,
                   killerMoves, historyTable, calls>>

\* quiescence calls itself for a capture of its loop.
CallsCapture ==
    /\ searched.fn = "quiescence"
    /\ \E moves \in {getValidMovesForColor(searched.board,
                        searched.sideToMove, searched.rights)} :
        \E i \in 1..Len(moves) :
           /\ moves[i].captured # Null
           /\ searched' =
                 CalledFrom([searched EXCEPT
                     !.board = applyMove(searched.board, moves[i]),
                     !.rights = updateCastlingRights(searched.rights,
                                    moves[i], searched.board),
                     !.sideToMove = Opponent(searched.sideToMove),
                     !.by = "capture"])
    /\ UNCHANGED <<gameVars, hashVars, probe, transpositionTable, currentAge,
                   killerMoves, historyTable, calls>>

CallsNext == CallsTop \/ CallsLeaf \/ CallsNull \/ CallsMove \/ CallsCapture

SpecCalls == SearchInit /\ [][CallsNext]_vars

(***************************************************************************)
(* C28: every recursive call of negamax (for the null move, a move, a      *)
(* reduced move or its re-search) has a strictly smaller depth than its    *)
(* caller, and every recursive call of quiescence is made on a board with  *)
(* strictly fewer pieces.                                                  *)
(***************************************************************************)
C28_CallsDescend ==
    /\ (searched.fn = "negamax" /\ searched.caller.fn = "negamax")
          => searched.depth < searched.caller.depth
    /\ (searched.fn = "quiescence" /\ searched.caller.fn = "quiescence")
          => PieceCount(searched.board) < searched.caller.pieces

\* C28 witness: quiescence has called itself for a capture, on a path
\* that came through a move of negamax's loop.
C28_Witness ==
    /\ searched.fn = "quiescence"
    /\ searched.by = "capture"
    /\ searched.caller.fn = "quiescence"
    /\ searched.moved > 0

\* C28, a second case reached: negamax has called itself for a reduced
\* late move.
C28_ReducedReached ==
    searched.fn = "negamax" /\ searched.by = "reduced"

(***************************************************************************)
(* Boards, rights and history arrays as objects the callee could write to  *)
(*                                                                         *)
(* heap is the sequence of the objects allocated, an object's reference    *)
(* its index. A board is an array of the references of its eight rows, a   *)
(* row an array of pieces; castling rights are an object with four flags;  *)
(* a history is an array of keys.                                          *)
(***************************************************************************)

Alloc(heap, object) == [heap |-> Append(heap, object), ref |-> Len(heap) + 1]

\* The board a reference stands for.
BoardAt(heap, boardRef) == [r \in Rows |-> heap[heap[boardRef][r + 1]]]

\* A board, its rights and a history as the caller holds them: the rows at
\* 1..8, the board at 9, the rights at 10, the history at 11.
Loaded(board, rights, history) ==
    [r \in 1..8 |-> board[r - 1]]
    \o << <<1, 2, 3, 4, 5, 6, 7, 8>>, rights, history >>

\* [...board]: a new array of the same rows.
CopyBoardShallow(heap, boardRef) == Alloc(heap, heap[boardRef])

\* board.map(row => [...row]): a new array of new rows.
CopyBoard(heap, boardRef) ==
    Alloc(heap \o [r \in 1..8 |-> heap[heap[boardRef][r]]],
          [r \in 1..8 |-> Len(heap) + r])

\* newBoard[row][col] = piece.
WriteSquare(heap, boardRef, row, col, piece) ==
    [heap EXCEPT ![heap[boardRef][row + 1]] = [@ EXCEPT ![col] = piece]]

\* applyMove, the assignments after the copy.
applyMoveWrites(heap, newBoard, move) ==
    LET piece == BoardAt(heap, newBoard)[move.from.row][move.from.col]
        moved == WriteSquare(
                    WriteSquare(heap, newBoard, move.to.row, move.to.col,
                                piece),
                    newBoard, move.from.row, move.from.col, Null)
        rookFrom == IF move.to.col = 5 THEN 7 ELSE 0
        rookTo == IF move.to.col = 5 THEN 4 ELSE 2
        castled ==
            IF /\ move.isCastling /\ piece.type = "k"
               /\ move.to.col \in {5, 1}
            THEN WriteSquare(
                    WriteSquare(moved, newBoard, move.from.row, rookTo,
                        BoardAt(moved, newBoard)[move.from.row][rookFrom]),
                    newBoard, move.from.row, rookFrom, Null)
            ELSE moved
        enPassant ==
            IF move.isEnPassant /\ piece.type = "p"
            THEN WriteSquare(castled, newBoard, move.from.row, move.to.col,
                             Null)
            ELSE castled
        promotionRow == IF piece.color = "white" THEN 7 ELSE 0
    IN  IF piece = Null THEN heap
        ELSE IF piece.type = "p" /\ move.to.row = promotionRow
             THEN WriteSquare(enPassant, newBoard, move.to.row, move.to.col,
                              Piece("q", piece.color))
             ELSE enPassant

\* applyMove on the heap: the heap it leaves and the reference it returns.
applyMoveOn(heap, boardRef, move) ==
    LET copy == CopyBoard(heap, boardRef)
    IN  [heap |-> applyMoveWrites(copy.heap, copy.ref, move),
         ref |-> copy.ref]

\* updateCastlingRights on the heap: the copy { ...rights }, and the
\* assignments to it. The reference 0 stands for undefined.
updateCastlingRightsOn(heap, rightsRef, move, boardRef) ==
    LET copy == Alloc(heap, heap[rightsRef])
        piece == BoardAt(heap, boardRef)[move.from.row][move.from.col]
        king == [copy.heap EXCEPT ![copy.ref] =
                    IF piece.type # "k" THEN @
                    ELSE IF piece.color = "white"
                    THEN [@ EXCEPT !.whiteKingSide = FALSE,
                                   !.whiteQueenSide = FALSE]
                    ELSE [@ EXCEPT !.blackKingSide = FALSE,
                                   !.blackQueenSide = FALSE]]
        rook == [king EXCEPT ![copy.ref] =
                    IF piece.type # "r" THEN @
                    ELSE IF piece.color = "white" /\ move.from.row = 0
                    THEN [@ EXCEPT
                            !.whiteQueenSide =
                                IF move.from.col = 0 THEN FALSE ELSE @,
                            !.whiteKingSide =
                                IF move.from.col = 7 THEN FALSE ELSE @]
                    ELSE IF piece.color = "black" /\ move.from.row = 7
                    THEN [@ EXCEPT
                            !.blackQueenSide =
                                IF move.from.col = 0 THEN FALSE ELSE @,
                            !.blackKingSide =
                                IF move.from.col = 7 THEN FALSE ELSE @]
                    ELSE @]
    IN  IF rightsRef = 0 THEN [heap |-> heap, ref |-> 0]
        ELSE IF piece = Null THEN copy
        ELSE [heap |-> rook, ref |-> copy.ref]

RECURSIVE negamaxOn(_, _, _, _, _, _)
\* The loop body of negamax on the heap: applyMove, updateCastlingRights,
\* the key, and unless the position is a third repetition the new history
\* [...history, newHash] and the child search.
MoveOn(heap, boardRef, rightsRef, historyRef, sideToMove, depth, move) ==
    LET applied == applyMoveOn(heap, boardRef, move)
        updated == updateCastlingRightsOn(applied.heap, rightsRef, move,
                                          boardRef)
        newHash == hashPosition(BoardAt(updated.heap, applied.ref),
                                Opponent(sideToMove),
                                updated.heap[updated.ref])
        newHistory == Alloc(updated.heap, Append(heap[historyRef], newHash))
    IN  IF isThirdRepetition(newHash, heap[historyRef]) THEN updated.heap
        ELSE negamaxOn(newHistory.heap, applied.ref, updated.ref,
                       newHistory.ref, Opponent(sideToMove), depth - 1)

RECURSIVE LoopOn(_, _, _, _, _, _, _, _, _)
\* The loop of negamax over moves[first..last], first <= last, on the
\* heap. Every move is searched: no cutoff leaves the loop.
LoopOn(heap, boardRef, rightsRef, historyRef, sideToMove, depth, moves, first, last) ==
    IF first = last
    THEN MoveOn(heap, boardRef, rightsRef, historyRef, sideToMove, depth,
                moves[first])
    ELSE LoopOn(LoopOn(heap, boardRef, rightsRef, historyRef, sideToMove,
                       depth, moves, first, (first + last) \div 2),
                boardRef, rightsRef, historyRef, sideToMove, depth, moves,
                (first + last) \div 2 + 1, last)

\* negamax on the heap, from the move generation on: the heap it leaves.
\* A node of depth <= 0 allocates nothing here.
NegamaxMovesOn(heap, boardRef, rightsRef, historyRef, sideToMove, depth, moves) ==
    IF Len(moves) = 0 THEN heap
    ELSE LoopOn(heap, boardRef, rightsRef, historyRef, sideToMove, depth,
                moves, 1, Len(moves))

negamaxOn(heap, boardRef, rightsRef, historyRef, sideToMove, depth) ==
    IF depth <= 0 THEN heap
    ELSE NegamaxMovesOn(heap, boardRef, rightsRef, historyRef, sideToMove,
                        depth,
                        getValidMovesForColor(BoardAt(heap, boardRef),
                                              sideToMove, heap[rightsRef]))

\* What the caller holds at the references 9, 10 and 11.
Held(heap) ==
    [board |-> BoardAt(heap, 9), rights |-> heap[10], history |-> heap[11]]

\* applyMove and updateCastlingRights are called for a move the generator
\* lists.
FrameMove ==
    /\ searched = NotSearched
    /\ \E board \in CornerBoards, color \in {"white", "black"} :
        \E moves \in {getValidMovesForColor(board, color, AllRights)} :
          \E i \in 1..Len(moves) :
            \E heap \in {Loaded(board, AllRights, <<>>)} :
              \E applied \in {applyMoveOn(heap, 9, moves[i])} :
                \E updated \in {updateCastlingRightsOn(applied.heap, 10,
                                                       moves[i], 9)} :
                   searched' =
                      [fn |-> "applyMove", given |-> Held(heap),
                       left |-> Held(updated.heap),
                       returned |->
                          [board |-> BoardAt(updated.heap, applied.ref),
                           rights |-> updated.heap[updated.ref]],
                       expected |->
                          [board |-> applyMove(board, moves[i]),
                           rights |-> updateCastlingRights(AllRights,
                                         moves[i], board)]]
    /\ UNCHANGED <<gameVars, hashVars, probe, transpositionTable, currentAge,
                   killerMoves, historyTable, calls>>

\* negamax is called on a board, rights and a history of one key, up to
\* two plies deep.
FrameSearch ==
    /\ searched = NotSearched
    /\ \E top \in {RootFork}, sideToMove \in {"white", "black"},
          depth \in 1..2 :
        \E heap \in {Loaded(top.board, top.castlingRights,
                        <<hashPosition(top.board, sideToMove,
                                       top.castlingRights)>>)} :
          \E after \in {negamaxOn(heap, 9, 10, 11, sideToMove, depth)} :
             searched' =
                [fn |-> "negamax", given |-> Held(heap),
                 left |-> Held(after), returned |-> Len(after),
                 expected |-> Len(after)]
    /\ UNCHANGED <<gameVars, hashVars, probe, transpositionTable, currentAge,
                   killerMoves, historyTable, calls>>

FrameNext == FrameMove \/ FrameSearch

SpecFrame == SearchInit /\ [][FrameNext]_vars

(***************************************************************************)
(* C29: applyMove and updateCastlingRights do not modify the board or the  *)
(* rights they are given, and negamax does not modify the history array    *)
(* it receives: when the call returns, the caller's board, castling rights *)
(* and history are what they were before it.                               *)
(***************************************************************************)
C29_CallsLeaveArguments ==
    searched.fn \in {"applyMove", "negamax"} =>
        /\ searched.left = searched.given
        /\ searched.returned = searched.expected

\* C29 witness: negamax has returned from a search that allocated boards,
\* rights and histories for its children.
C29_Witness ==
    /\ searched.fn = "negamax"
    /\ searched.returned > 11 + 2 * 11

(***************************************************************************)
(* The transposition-table entry of a node and the time flag               *)
(***************************************************************************)

\* The time tests after which the budget may run out.
MaxStoreTests == 30

\* The entry of a key in the table, or none.
EntryOf(table, hash) ==
    IF hash \in DOMAIN table.entries THEN table.entries[hash]
    ELSE [flag |-> "none"]

\* negamax(board, sideToMove, depth, -Infinity, Infinity, rights, 1, true,
\* []) on empty tables, the budget running out at the time test number
\* expireAt; and the same call without a budget.
StoreCall ==
    /\ searched = NotSearched
    /\ \E top \in CallTops, sideToMove \in {"white", "black"},
          depth \in 1..2, expireAt \in 0..MaxStoreTests :
        \E timed \in
            {negamax(ArgsOf([top EXCEPT !.color = sideToMove], depth, TRUE,
                            expireAt) @@ [age |-> 1],
                     EnteredWith(EmptyTable), top.board, sideToMove, depth,
                     -Infinity, Infinity, top.castlingRights, 1, TRUE, <<>>)},
           whole \in
            {negamax(ArgsOf([top EXCEPT !.color = sideToMove], depth, FALSE,
                            0) @@ [age |-> 1],
                     EnteredWith(EmptyTable), top.board, sideToMove, depth,
                     -Infinity, Infinity, top.castlingRights, 1, TRUE,
                     <<>>)} :
           searched' =
              [fn |-> "negamax", timed |-> TRUE, board |-> top.board,
               sideToMove |-> sideToMove, depth |-> depth,
               expireAt |-> expireAt,
               timeExpired |-> timed.st.timeExpired,
               stored |-> Len(timed.st.tt.order),
               entry |-> EntryOf(timed.st.tt,
                            hashPosition(top.board, sideToMove,
                                         top.castlingRights)),
               whole |-> EntryOf(whole.st.tt,
                            hashPosition(top.board, sideToMove,
                                         top.castlingRights))]
    /\ UNCHANGED <<gameVars, hashVars, probe, transpositionTable, currentAge,
                   killerMoves, historyTable, calls>>

SpecStore == SearchInit /\ [][StoreCall]_vars

(***************************************************************************)
(* C30: a negamax node writes no transposition-table entry after the time  *)
(* flag has been set: an entry stored comes from a node whose move loop    *)
(* and child searches all finished before expiry, so it is the entry the   *)
(* search without a budget stores.                                         *)
(***************************************************************************)
C30_NoEntryAfterExpiry ==
    (searched.fn = "negamax" /\ searched.entry.flag # "none") =>
        /\ ~searched.timeExpired
        /\ searched.entry = searched.whole

\* C30 witness: the time expired in a search after nodes below the top
\* had stored their entries, and the top node stored none.
C30_Witness ==
    /\ searched.fn = "negamax"
    /\ searched.timeExpired
    /\ searched.stored > 0
    /\ searched.entry.flag = "none"

=============================================================================
